---- MODULE Spec2Model ----
(***************************************************************************)
(* Model of the resumable YouTube comment extraction pipeline (main.py):   *)
(* the quota-tracked gateway, the three paginated fetchers, the JSON state *)
(* store with its atomic save, and the per-video orchestrator loop, run    *)
(* repeatedly against fixed upstream data with process kills in between.   *)
(***************************************************************************)
EXTENDS Integers, Sequences, FiniteSets, TLC

(***************************************************************************)
(* Bounds                                                                  *)
(***************************************************************************)
\* number of process runs (start .. exit/kill) explored
MaxRuns == 2

(***************************************************************************)
(* Program constants                                                       *)
(***************************************************************************)
retry_attempts == 3

QUOTA_COSTS ==
  [op \in {"channels.list", "playlistItems.list", "commentThreads.list",
           "comments.list", "search.list"} |->
     IF op = "search.list" THEN 100 ELSE 1]

(***************************************************************************)
(* Upstream data (the black-box paginated source), unchanged across runs.  *)
(* A cursor is a page number; 0 is "no cursor".                            *)
(***************************************************************************)
VideoPages == << <<"V1", "V2">>, <<"V3">> >>

\* comment threads per video, page by page: <<thread id, totalReplyCount>>
CommentPages(v) ==
  CASE v = "V1" -> << << <<"t1", 2>> >>, << <<"t2", 2>> >> >>
    [] v = "V2" -> << << >> >>
    [] v = "V3" -> << << <<"t3", 0>> >> >>

\* replies per parent comment, page by page (t2 reports 2 but only 1 exists)
ReplyPages(t) ==
  CASE t = "t1" -> << <<"r1">>, <<"r2">> >>
    [] t = "t2" -> << <<"r3">> >>
    [] t = "t3" -> << << >> >>

\* the response of the source to a list call with cursor tok
PageResponse(pages, tok) ==
  LET p == IF tok = 0 THEN 1 ELSE tok
  IN  [items |-> pages[p],
       nextPageToken |-> IF p < Len(pages) THEN p + 1 ELSE 0]

(***************************************************************************)
(* Failures the source can raise on one invocation of a thunk              *)
(***************************************************************************)
OK          == [ok |-> TRUE,  http |-> FALSE, status |-> 200, content |-> "-"]
E429        == [ok |-> FALSE, http |-> TRUE,  status |-> 429, content |-> "rateLimitExceeded"]
E503        == [ok |-> FALSE, http |-> TRUE,  status |-> 503, content |-> "backendError"]
EQuota      == [ok |-> FALSE, http |-> TRUE,  status |-> 403, content |-> "quotaExceeded"]
EDisabled   == [ok |-> FALSE, http |-> TRUE,  status |-> 403, content |-> "commentsDisabled"]
EOther      == [ok |-> FALSE, http |-> TRUE,  status |-> 404, content |-> "videoNotFound"]
EUnparsable == [ok |-> FALSE, http |-> TRUE,  status |-> 500, content |-> "<not json>"]
ENoReason   == [ok |-> FALSE, http |-> TRUE,  status |-> 400, content |-> "<no errors>"]
ENonHttp    == [ok |-> FALSE, http |-> FALSE, status |-> 0,   content |-> "socket"]

\* what the source does on the successive attempts of one gateway call
Scripts ==
  { <<OK>>, <<EQuota>>, <<EDisabled>>, <<EOther>>, <<EUnparsable>>,
    <<ENoReason>>, <<ENonHttp>>,
    <<E429, OK>>, <<E503, E429, OK>>, <<E429, EQuota>>,
    <<E429, E503, E429>>, <<E503, E503, E503>> }

\* parse_http_error_reason: the first error's reason, None ("") if the
\* content is not JSON or carries no reason
parse_http_error_reason(e) ==
  CASE e.content = "<not json>"  -> ""
    [] e.content = "<no errors>" -> ""
    [] OTHER                     -> e.content

\* a counter that adds one unit whatever the operation
track_quota_Flat(quota, operation_type) ==
  quota + (IF operation_type \in DOMAIN QUOTA_COSTS THEN 1 ELSE 0)

\* track_quota: the counter after one successful call of operation_type
track_quota(quota, operation_type) ==
  quota + (IF operation_type \in DOMAIN QUOTA_COSTS
           THEN QUOTA_COSTS[operation_type] ELSE 0)

\* a loop that also waits after the failure of the last attempt
RECURSIVE gateway_loop_WaitOnLast(_, _, _, _, _)
gateway_loop_WaitOnLast(script, operation_type, max_retries, attempt, acc) ==
  IF attempt >= max_retries
  THEN [acc EXCEPT !.raised = TRUE, !.e = script[max_retries]]
  ELSE
    LET o == script[attempt + 1]
        a == [acc EXCEPT !.attempts = attempt + 1]
    IN  IF o.ok
        THEN [a EXCEPT !.returned = TRUE,
                       !.quota = track_quota(acc.quota, operation_type)]
        ELSE IF o.http /\ o.status \in {429, 503}
             THEN gateway_loop_WaitOnLast(script, operation_type, max_retries,
                                          attempt + 1,
                                          [a EXCEPT !.waits = Append(acc.waits, attempt)])
             ELSE [a EXCEPT !.raised = TRUE, !.e = o]

\* a loop that retries after every HTTP failure
RECURSIVE gateway_loop_RetryAll(_, _, _, _, _)
gateway_loop_RetryAll(script, operation_type, max_retries, attempt, acc) ==
  IF attempt >= max_retries
  THEN [acc EXCEPT !.raised = FALSE, !.returned = FALSE]
  ELSE
    LET o == script[attempt + 1]
        a == [acc EXCEPT !.attempts = attempt + 1]
    IN  IF o.ok
        THEN [a EXCEPT !.returned = TRUE,
                       !.quota = track_quota(acc.quota, operation_type)]
        ELSE IF o.http
             THEN IF attempt < max_retries - 1
                  THEN gateway_loop_RetryAll(script, operation_type, max_retries,
                                             attempt + 1,
                                             [a EXCEPT !.waits = Append(acc.waits, attempt)])
                  ELSE [a EXCEPT !.raised = TRUE, !.e = o]
             ELSE [a EXCEPT !.raised = TRUE, !.e = o]

\* api_call_with_retry from attempt `attempt` on (0-based): the thunk's
\* outcome on attempt k is script[k+1]
RECURSIVE gateway_loop(_, _, _, _, _)
gateway_loop(script, operation_type, max_retries, attempt, acc) ==
  IF attempt >= max_retries
  THEN [acc EXCEPT !.raised = FALSE, !.returned = FALSE]
  ELSE
    LET o == script[attempt + 1]
        a == [acc EXCEPT !.attempts = attempt + 1]
    IN  IF o.ok
        THEN [a EXCEPT !.returned = TRUE,
                       !.quota = track_quota(acc.quota, operation_type)]
        ELSE IF o.http /\ o.status \in {429, 503}
             THEN IF attempt < max_retries - 1
                  THEN gateway_loop(script, operation_type, max_retries,
                                    attempt + 1,
                                    [a EXCEPT !.waits = Append(acc.waits, attempt)])
                  ELSE [a EXCEPT !.raised = TRUE, !.e = o]
             ELSE [a EXCEPT !.raised = TRUE, !.e = o]

\* a gateway that charges the operation whether or not the call succeeds
api_call_with_retry_ChargeAlways(script, operation_type, quota) ==
  [gateway_loop(script, "", retry_attempts, 0,
                [returned |-> FALSE, raised |-> FALSE, e |-> OK,
                 attempts |-> 0, waits |-> << >>, quota |-> quota])
     EXCEPT !.quota = track_quota(quota, operation_type)]

api_call_with_retry(script, operation_type, quota) ==
  gateway_loop(script, operation_type, retry_attempts, 0,
               [returned |-> FALSE, raised |-> FALSE, e |-> OK,
                attempts |-> 0, waits |-> << >>, quota |-> quota])

(***************************************************************************)
(* Records and the JSON state store                                        *)
(***************************************************************************)
create_video_link(video_id) == <<"https://www.youtube.com/watch?v=", video_id>>

CommentObj(thread, video_id) ==
  [comment |-> thread[1], videoLink |-> create_video_link(video_id)]

SubCommentObj(reply, parent_comment_id, video_id) ==
  [subComment |-> reply, parentCommentId |-> parent_comment_id,
   videoLinkId |-> video_id]

\* a file: absent, or the text written so far.  The text of a JSON array is
\* "[", the items, "]"; a text cut short misses the closing bracket.
Absent == [exists |-> FALSE, open |-> FALSE, items |-> << >>, close |-> FALSE]
EmptyText == [exists |-> TRUE, open |-> FALSE, items |-> << >>, close |-> FALSE]

\* json.dump(data): the complete text of the array
JsonDump(data) == [exists |-> TRUE, open |-> TRUE, items |-> data, close |-> TRUE]

\* the first k items of the text of data, closing bracket not yet written
JsonPrefix(data, k) ==
  [exists |-> TRUE, open |-> TRUE, items |-> SubSeq(data, 1, k), close |-> FALSE]

\* a file the pipeline did not write: a complete JSON text whose value is a
\* number or a non-empty object, or bytes that are not UTF-8 text
Document(top) ==
  [exists |-> TRUE, open |-> FALSE, items |-> << >>, close |-> FALSE, top |-> top]

\* an array item that is a number, not an object
JsonNumber == [json |-> "number"]

\* what json.load(f) raises on the text: nothing on a complete text
JsonError(file) ==
  IF "top" \in DOMAIN file
  THEN IF file.top = "bytes" THEN "UnicodeDecodeError" ELSE "none"
  ELSE IF file.open /\ file.close THEN "none" ELSE "JSONDecodeError"

\* json.load succeeds exactly on a complete text
JsonValid(file) == file.exists /\ JsonError(file) = "none"

RECURSIVE LinkError(_)
\* what comment['videoLink'] raises over the items, in order: TypeError on
\* an item that is not an object, KeyError on an object without the key
LinkError(items) ==
  IF items = << >> THEN "none"
  ELSE IF "json" \in DOMAIN Head(items) THEN "TypeError"
  ELSE IF "videoLink" \notin DOMAIN Head(items) THEN "KeyError"
  ELSE LinkError(Tail(items))

\* a load that also counts as processed the videos found without comments
load_state_ZeroCounted(comments_file) ==
  IF JsonValid(comments_file)
  THEN [raised    |-> FALSE,
        processed |-> {comments_file.items[i].videoLink :
                         i \in 1..Len(comments_file.items)}
                      \cup {create_video_link("V2")},
        comments  |-> comments_file.items]
  ELSE [raised |-> FALSE, processed |-> {}, comments |-> << >>]

\* a load that takes the processed set from the last comment alone
load_state_LastLink(comments_file) ==
  IF JsonValid(comments_file) /\ comments_file.items # << >>
  THEN [raised    |-> FALSE,
        processed |-> {comments_file.items[Len(comments_file.items)].videoLink},
        comments  |-> comments_file.items]
  ELSE [raised |-> FALSE, processed |-> {}, comments |-> << >>]

\* load_state: (processed_videos_set, existing_comments), empty when the
\* file is absent or JSONDecodeError or KeyError is raised; any other
\* exception (the text is not UTF-8, the value is not iterable, an item is
\* not an object) is not caught
load_state(comments_file) ==
  LET empty  == [raised |-> FALSE, processed |-> {}, comments |-> << >>]
      raises == [raised |-> TRUE,  processed |-> {}, comments |-> << >>]
  IN  IF ~ comments_file.exists THEN empty
      ELSE IF JsonError(comments_file) = "JSONDecodeError" THEN empty
      ELSE IF JsonError(comments_file) = "UnicodeDecodeError" THEN raises
      ELSE IF "top" \in DOMAIN comments_file THEN raises
      ELSE IF LinkError(comments_file.items) = "KeyError" THEN empty
      ELSE IF LinkError(comments_file.items) = "TypeError" THEN raises
      ELSE [raised    |-> FALSE,
            processed |-> {comments_file.items[i].videoLink :
                             i \in 1..Len(comments_file.items)},
            comments  |-> comments_file.items]

\* load_sub_comments: the value of the file as it is, empty when the file is
\* absent or JSONDecodeError is raised; a text that is not UTF-8 raises past
\* it.  (The value of a text that is not an array is returned too; the
\* files drawn for it are arrays.)
load_sub_comments(sub_comments_file) ==
  IF ~ sub_comments_file.exists
  THEN [raised |-> FALSE, sub_comments |-> << >>]
  ELSE IF JsonError(sub_comments_file) = "JSONDecodeError"
       THEN [raised |-> FALSE, sub_comments |-> << >>]
       ELSE IF JsonError(sub_comments_file) = "UnicodeDecodeError"
            THEN [raised |-> TRUE, sub_comments |-> << >>]
            ELSE [raised |-> FALSE, sub_comments |-> sub_comments_file.items]

\* a write that goes to the target path itself
TempWrite_InPlace(files, temp_path, file_path, text) ==
  [files EXCEPT ![file_path] = text]

\* the file system after writing text into the temporary file
TempWrite(files, temp_path, file_path, text) ==
  [files EXCEPT ![temp_path] = text]

\* os.replace(temp_path, file_path)
Replace(files, temp_path, file_path) ==
  [files EXCEPT ![file_path] = files[temp_path], ![temp_path] = Absent]

(***************************************************************************)
(* Pure parts of the fetchers and of the orchestrator                      *)
(***************************************************************************)
RECURSIVE SelectSeq2(_, _)
\* the videos of vs whose link is not in processed, in order
SelectSeq2(vs, processed) ==
  IF vs = << >> THEN << >>
  ELSE LET rest == SelectSeq2(Tail(vs), processed)
       IN  IF create_video_link(Head(vs).id) \notin processed
           THEN <<Head(vs)>> \o rest
           ELSE rest

\* a worklist that ignores the processed set
FilterVideos_NoFilter(all, processed) == all

\* Step 7: the worklist
FilterVideos(all, processed) == SelectSeq2(all, processed)

VideoObj(video_id) == [id |-> video_id, title |-> video_id]

RECURSIVE MapSeq3(_, _)
\* one video dictionary per playlist item
MapSeq3(items, i) ==
  IF i > Len(items) THEN << >>
  ELSE <<VideoObj(items[i])>> \o MapSeq3(items, i + 1)

PageVideos(items) == MapSeq3(items, 1)

RECURSIVE PageComments(_, _)
\* one comment per thread of a page
PageComments(items, video_id) ==
  IF items = << >> THEN << >>
  ELSE <<CommentObj(Head(items), video_id)>> \o PageComments(Tail(items), video_id)

RECURSIVE PageThreads_All(_)
\* a reply-pointer for every thread, whatever its reply count
PageThreads_All(items) ==
  IF items = << >> THEN << >>
  ELSE <<Head(items)>> \o PageThreads_All(Tail(items))

RECURSIVE PageThreads(_)
\* (parent_comment_id, total_reply_count) of the threads that report replies
PageThreads(items) ==
  IF items = << >> THEN << >>
  ELSE IF Head(items)[2] > 0
       THEN <<Head(items)>> \o PageThreads(Tail(items))
       ELSE PageThreads(Tail(items))

RECURSIVE PageReplies(_, _, _)
\* one sub-comment per reply of a page
PageReplies(items, parent_comment_id, video_id) ==
  IF items = << >> THEN << >>
  ELSE <<SubCommentObj(Head(items), parent_comment_id, video_id)>>
       \o PageReplies(Tail(items), parent_comment_id, video_id)

\* a fetcher that swallows the failure and returns the pages fetched so far
fetch_video_comments_except_Partial(e, comments_acc, threads_acc) ==
  [raised |-> FALSE, comments |-> comments_acc, threads |-> threads_acc]

\* fetch_video_comments, except HttpError: re-raised; any other exception is
\* not caught there.  Either way nothing accumulated is returned.
fetch_video_comments_except(e, comments_acc, threads_acc) ==
  [raised |-> TRUE, comments |-> << >>, threads |-> << >>]

\* a reply fetcher that returns the pages fetched so far on failure
fetch_comment_replies_except_Partial(e, replies_acc) ==
  IF e.http /\ parse_http_error_reason(e) = "quotaExceeded"
  THEN [raised |-> TRUE,  replies |-> << >>]
  ELSE [raised |-> FALSE, replies |-> replies_acc]

\* fetch_comment_replies, except clauses: quotaExceeded is re-raised, every
\* other failure is swallowed and an empty list returned
fetch_comment_replies_except(e, replies_acc) ==
  IF e.http /\ parse_http_error_reason(e) = "quotaExceeded"
  THEN [raised |-> TRUE,  replies |-> << >>]
  ELSE [raised |-> FALSE, replies |-> << >>]

\* the reply loop's inner "except Exception": catches everything raised by
\* fetch_comment_replies, HttpError included
ReplyLoopCatches(e) == TRUE

\* handlers that skip the video on quotaExceeded instead of stopping
VideoErrorHandler_QuotaContinue(e) == "continue"

\* handlers that let quotaExceeded escape to the top-level handler
VideoErrorHandler_QuotaRaise(e) ==
  IF e.http /\ parse_http_error_reason(e) = "quotaExceeded"
  THEN "raise" ELSE "continue"

\* handlers that stop the loop on commentsDisabled
VideoErrorHandler_DisabledBreak(e) ==
  IF e.http /\ parse_http_error_reason(e) \in {"commentsDisabled", "quotaExceeded"}
  THEN "break" ELSE "continue"

\* handlers that stop the loop on every failure that is not commentsDisabled
VideoErrorHandler_OtherBreak(e) ==
  IF e.http /\ parse_http_error_reason(e) = "commentsDisabled"
  THEN "continue" ELSE "break"

\* the per-video handlers of the main loop: "continue" or "break" (a handler
\* that raised would reach the top-level handler, "raise")
VideoErrorHandler(e) ==
  IF e.http
  THEN LET error_reason == parse_http_error_reason(e)
       IN  IF error_reason = "commentsDisabled" THEN "continue"
           ELSE IF error_reason = "quotaExceeded" THEN "break"
           ELSE "continue"
  ELSE "continue"

\* the record appended to failed_reply_fetches
Discrepancy(parent, video_id, expected, fetched, missing, err) ==
  [parent_comment_id |-> parent, video_id |-> video_id,
   video_link |-> create_video_link(video_id),
   expected_count |-> expected, fetched_count |-> fetched,
   missing_count |-> missing, error |-> err]

\* a validation that only notices replies in excess
Validate_Greater(failed, parent, video_id, reply_count, replies) ==
  IF Len(replies) > reply_count
  THEN Append(failed, Discrepancy(parent, video_id, reply_count, Len(replies),
                                  reply_count - Len(replies), FALSE))
  ELSE failed

\* the validation after a successful return of fetch_comment_replies
Validate(failed, parent, video_id, reply_count, replies) ==
  IF Len(replies) # reply_count
  THEN Append(failed, Discrepancy(parent, video_id, reply_count, Len(replies),
                                  reply_count - Len(replies), FALSE))
  ELSE failed

\* get_channel_id_from_url: which lookup, if any, a URL form needs
Urls == {"channel", "handle", "custom", "user", "bare24", "badhost", "unknown"}

\* a resolution that searches for legacy usernames too
ResolveOperation_SearchUser(url) ==
  CASE url \in {"handle", "custom", "user"} -> "search.list"
    [] OTHER -> "none"

ResolveOperation(url) ==
  CASE url = "handle" -> "search.list"
    [] url = "custom" -> "search.list"
    [] url = "user"   -> "channels.list"
    [] OTHER          -> "none"


(***************************************************************************)
(* State                                                                   *)
(***************************************************************************)
VARIABLES
  pc,                       \* position of the process in __main__
  exit_status,              \* -1 while running, else the status of exit()
  run,                      \* number of the current run
  fs,                       \* the output directory: path -> file
  quota_used,
  processed_videos_set, master_comments_list, master_sub_comments_list,
  all_videos, videos_to_process, vidx,
  next_page_token,
  comments_list, threads_acc,            \* locals of fetch_video_comments
  new_comments, threads_with_replies, new_sub_comments, tidx,
  sub_comments_list,                     \* local of fetch_comment_replies
  failed_reply_fetches,
  aw,                       \* frame of atomic_write_json
  \* observation only
  ev,                       \* the last gateway call and how it ended
  quota_at,                 \* stages of this run that met quotaExceeded
  cfail,                    \* a comment fetch of this run failed
  everfail,                 \* some gateway call of some run failed
  prev,                     \* how the previous run ended and what it left
  hw,                       \* the last atomic write: path, old and new text
  gw,                       \* the gateway called on its own: calls and results
  db                        \* the database scripts run on their own

ctl   == <<pc, exit_status, run>>
state == <<processed_videos_set, master_comments_list, master_sub_comments_list>>
work  == <<all_videos, videos_to_process, vidx>>
video == <<comments_list, threads_acc, new_comments, threads_with_replies,
           new_sub_comments, tidx, sub_comments_list>>
obs   == <<ev, quota_at, cfail, everfail>>
hist  == <<prev, hw>>
\* everything the extraction pipeline owns
pipeline == <<ctl, fs, quota_used, state, work, next_page_token, video,
              failed_reply_fetches, aw, obs, hist>>

vars == <<pc, exit_status, run, fs, quota_used,
          processed_videos_set, master_comments_list, master_sub_comments_list,
          all_videos, videos_to_process, vidx, next_page_token,
          comments_list, threads_acc, new_comments, threads_with_replies,
          new_sub_comments, tidx, sub_comments_list, failed_reply_fetches, aw,
          ev, quota_at, cfail, everfail, prev, hw, gw, db>>

Paths == {"comments", "sub_comments", "failed_replies", "tmp"}

NoEvent == [op |-> "none", stage |-> "none", arg |-> "", page |-> 0,
            raised |-> FALSE, e |-> OK]
NoWrite == [file_path |-> "none", data |-> << >>, ret |-> "none"]
NoCall  == [n |-> 0, succ |-> [op \in DOMAIN QUOTA_COSTS |-> 0],
            op |-> "", script |-> << >>,
            r |-> [returned |-> FALSE, raised |-> FALSE, e |-> OK,
                   attempts |-> 0, waits |-> << >>, quota |-> 0]]
NoHw    == [path |-> "none", old |-> Absent, new |-> Absent]
NoPrev  == [outcome |-> "none",
            comments |-> Absent, sub_comments |-> Absent,
            failed_replies |-> Absent]
NoDb    == [pc |-> "none"]

\* the state of a process that has just been started
Fresh ==
  /\ pc = "resolve"
  /\ exit_status = -1
  /\ quota_used = 0
  /\ processed_videos_set = {}
  /\ master_comments_list = << >>
  /\ master_sub_comments_list = << >>
  /\ all_videos = << >>
  /\ videos_to_process = << >>
  /\ vidx = 0
  /\ next_page_token = 0
  /\ comments_list = << >>
  /\ threads_acc = << >>
  /\ new_comments = << >>
  /\ threads_with_replies = << >>
  /\ new_sub_comments = << >>
  /\ tidx = 0
  /\ sub_comments_list = << >>
  /\ failed_reply_fetches = << >>
  /\ aw = NoWrite
  /\ ev = NoEvent
  /\ quota_at = {}
  /\ cfail = FALSE

\* the same, as the effect of starting the process
FreshNext ==
  /\ pc' = "resolve"
  /\ exit_status' = -1
  /\ quota_used' = 0
  /\ processed_videos_set' = {}
  /\ master_comments_list' = << >>
  /\ master_sub_comments_list' = << >>
  /\ all_videos' = << >>
  /\ videos_to_process' = << >>
  /\ vidx' = 0
  /\ next_page_token' = 0
  /\ comments_list' = << >>
  /\ threads_acc' = << >>
  /\ new_comments' = << >>
  /\ threads_with_replies' = << >>
  /\ new_sub_comments' = << >>
  /\ tidx' = 0
  /\ sub_comments_list' = << >>
  /\ failed_reply_fetches' = << >>
  /\ aw' = NoWrite
  /\ ev' = NoEvent
  /\ quota_at' = {}
  /\ cfail' = FALSE

Init ==
  /\ Fresh
  /\ run = 1
  /\ fs = [p \in Paths |-> Absent]
  /\ everfail = FALSE
  /\ prev = NoPrev
  /\ hw = NoHw
  /\ gw = NoCall
  /\ db = NoDb

\* how a run that is over ended: killed, or left by an exit other than the
\* end of the script, or run to its end with or without a failed comment fetch
Outcome ==
  CASE pc = "killed"            -> "killed"
    [] pc \in {"noop", "done"}  -> IF cfail THEN "complete_skipping" ELSE "complete"
    [] OTHER                    -> "left"

Over == pc \in {"killed", "interrupted", "fatal", "noop", "done"}

\* the process is started again on the same output directory; the temporary
\* file of an earlier run is not the one a new write will create
Start ==
  /\ UNCHANGED <<gw, db>>
  /\ Over
  /\ run < MaxRuns
  /\ run' = run + 1
  /\ prev' = [outcome |-> Outcome,
              comments |-> fs["comments"], sub_comments |-> fs["sub_comments"],
              failed_replies |-> fs["failed_replies"]]
  /\ FreshNext
  /\ fs' = [fs EXCEPT !["tmp"] = Absent]
  /\ hw' = NoHw
  /\ UNCHANGED everfail

\* the bookkeeping of one gateway call
Observe(op, stage, arg, page, r) ==
  /\ ev' = [op |-> op, stage |-> stage, arg |-> arg, page |-> page,
            raised |-> r.raised, e |-> IF r.raised THEN r.e ELSE OK]
  /\ quota_at' = IF r.raised /\ r.e.http
                    /\ parse_http_error_reason(r.e) = "quotaExceeded"
                 THEN quota_at \cup {stage} ELSE quota_at
  /\ cfail' = (cfail \/ (stage = "comments" /\ r.raised))
  /\ everfail' = (everfail \/ r.raised)
  /\ quota_used' = r.quota


(***************************************************************************)
(* Steps 2-7: resolve, load, playlist, listing, filter                     *)
(***************************************************************************)
\* exit(1)
Fatal ==
  /\ pc' = "fatal"
  /\ exit_status' = 1

\* Step 2: get_channel_id_from_url and its ValueError handler
Resolve ==
  /\ UNCHANGED <<gw, db>>
  /\ pc = "resolve"
  /\ \E url \in Urls :
       LET op == ResolveOperation(url)
       IN  IF op = "none"
           THEN /\ IF url \in {"channel", "bare24"}
                   THEN pc' = "load" /\ exit_status' = exit_status
                   ELSE Fatal
                /\ UNCHANGED <<obs, quota_used>>
           ELSE \E script \in Scripts, found \in BOOLEAN :
                  LET r == api_call_with_retry(script, op, quota_used)
                  IN  /\ Observe(op, "resolve", url, 1, r)
                      /\ IF r.returned /\ found
                         THEN pc' = "load" /\ exit_status' = exit_status
                         ELSE Fatal
  /\ UNCHANGED <<run, fs, state, work, next_page_token, video,
                 failed_reply_fetches, aw, hist>>

\* Step 4: load_state and load_sub_comments; what they raise reaches the
\* top-level "except Exception"
Load ==
  /\ UNCHANGED <<gw, db>>
  /\ pc = "load"
  /\ LET st == load_state(fs["comments"])
         sc == load_sub_comments(fs["sub_comments"])
     IN  IF st.raised \/ sc.raised
         THEN Fatal /\ UNCHANGED state
         ELSE /\ processed_videos_set' = st.processed
              /\ master_comments_list' = st.comments
              /\ master_sub_comments_list' = sc.sub_comments
              /\ pc' = "playlist"
              /\ exit_status' = exit_status
  /\ UNCHANGED <<run, fs, quota_used, work, next_page_token, video,
                 failed_reply_fetches, aw, obs, hist>>

\* Step 5: get_uploads_playlist_id and its handlers
Playlist ==
  /\ UNCHANGED <<gw, db>>
  /\ pc = "playlist"
  /\ \E script \in Scripts, found \in BOOLEAN :
       LET r == api_call_with_retry(script, "channels.list", quota_used)
       IN  /\ Observe("channels.list", "playlist", "UC", 1, r)
           /\ IF r.returned /\ found
              THEN pc' = "list" /\ exit_status' = exit_status
              ELSE Fatal
  /\ next_page_token' = 0
  /\ UNCHANGED <<run, fs, state, work, video, failed_reply_fetches, aw, hist>>

\* a listing that stops after its first page
ListPage_FirstPageOnly ==
  /\ UNCHANGED <<gw, db>>
  /\ pc = "list"
  /\ \E script \in Scripts :
       LET r    == api_call_with_retry(script, "playlistItems.list", quota_used)
           resp == PageResponse(VideoPages, 0)
       IN  /\ Observe("playlistItems.list", "listing", "UU", 1, r)
           /\ IF r.returned
              THEN /\ all_videos' = PageVideos(resp.items)
                   /\ next_page_token' = 0
                   /\ pc' = "filter"
                   /\ exit_status' = exit_status
              ELSE /\ Fatal
                   /\ UNCHANGED <<all_videos, next_page_token>>
  /\ UNCHANGED <<run, fs, state, videos_to_process, vidx, video,
                 failed_reply_fetches, aw, hist>>

\* Step 6: one page of get_all_video_ids_and_titles
ListPage ==
  /\ UNCHANGED <<gw, db>>
  /\ pc = "list"
  /\ \E script \in Scripts :
       LET r    == api_call_with_retry(script, "playlistItems.list", quota_used)
           page == IF next_page_token = 0 THEN 1 ELSE next_page_token
           resp == PageResponse(VideoPages, next_page_token)
       IN  /\ Observe("playlistItems.list", "listing", "UU", page, r)
           /\ IF r.returned
              THEN /\ all_videos' = all_videos \o PageVideos(resp.items)
                   /\ next_page_token' = resp.nextPageToken
                   /\ pc' = IF resp.nextPageToken = 0 THEN "filter" ELSE "list"
                   /\ exit_status' = exit_status
              ELSE /\ Fatal
                   /\ UNCHANGED <<all_videos, next_page_token>>
  /\ UNCHANGED <<run, fs, state, videos_to_process, vidx, video,
                 failed_reply_fetches, aw, hist>>

\* the head of the per-video loop for the i-th worklist video
BeginVideo(i, worklist) ==
  /\ vidx' = i
  /\ pc' = IF i > Len(worklist) THEN "step9" ELSE "comments"
  /\ next_page_token' = 0
  /\ comments_list' = << >>
  /\ threads_acc' = << >>
  /\ new_comments' = << >>
  /\ threads_with_replies' = << >>
  /\ new_sub_comments' = << >>
  /\ tidx' = 0
  /\ sub_comments_list' = << >>

\* break
BreakLoop ==
  /\ vidx' = vidx
  /\ pc' = "step9"
  /\ next_page_token' = 0
  /\ comments_list' = << >>
  /\ threads_acc' = << >>
  /\ new_comments' = << >>
  /\ threads_with_replies' = << >>
  /\ new_sub_comments' = << >>
  /\ tidx' = 0
  /\ sub_comments_list' = << >>

\* a filter that goes on to the flush when the worklist is empty
Filter_FlushAnyway ==
  /\ UNCHANGED <<gw, db>>
  /\ pc = "filter"
  /\ videos_to_process' = FilterVideos(all_videos, processed_videos_set)
  /\ IF videos_to_process' = << >>
     THEN /\ pc' = "merge"
          /\ exit_status' = exit_status
          /\ UNCHANGED <<vidx, next_page_token, video>>
     ELSE /\ BeginVideo(1, videos_to_process')
          /\ exit_status' = exit_status
  /\ UNCHANGED <<run, fs, quota_used, state, all_videos, failed_reply_fetches,
                 aw, obs, hist>>

\* Step 7: the worklist, and exit(0) when it is empty
Filter ==
  /\ UNCHANGED <<gw, db>>
  /\ pc = "filter"
  /\ videos_to_process' = FilterVideos(all_videos, processed_videos_set)
  /\ IF videos_to_process' = << >>
     THEN /\ pc' = "noop"
          /\ exit_status' = 0
          /\ UNCHANGED <<vidx, next_page_token, video>>
     ELSE /\ BeginVideo(1, videos_to_process')
          /\ exit_status' = exit_status
  /\ UNCHANGED <<run, fs, quota_used, state, all_videos, failed_reply_fetches,
                 aw, obs, hist>>


(***************************************************************************)
(* Step 8: the per-video loop                                              *)
(***************************************************************************)
\* fetch_video_comments has returned (comments, threads) to the loop
CommentsReturned(comments, threads) ==
  /\ new_comments' = comments
  /\ threads_with_replies' = threads
  /\ pc' = IF threads = << >> THEN "merge" ELSE "replies"
  /\ tidx' = IF threads = << >> THEN 0 ELSE 1
  /\ next_page_token' = 0
  /\ comments_list' = << >>
  /\ threads_acc' = << >>
  /\ sub_comments_list' = << >>
  /\ UNCHANGED <<vidx, new_sub_comments>>

\* a loop whose handlers try the failed page again instead of moving on
Handled_RetryPage(h) ==
  IF h = "break"
  THEN BreakLoop /\ exit_status' = exit_status
  ELSE IF h = "continue"
       THEN UNCHANGED <<pc, exit_status, vidx, next_page_token, video>>
       ELSE Fatal /\ UNCHANGED <<vidx, next_page_token, video>>

\* the loop after one of its per-video handlers has run
Handled(h) ==
  IF h = "break"
  THEN BreakLoop /\ exit_status' = exit_status
  ELSE IF h = "continue"
       THEN BeginVideo(vidx + 1, videos_to_process) /\ exit_status' = exit_status
       ELSE Fatal /\ UNCHANGED <<vidx, next_page_token, video>>

\* one page of fetch_video_comments, with the loop's handlers on failure
FetchCommentsPage ==
  /\ UNCHANGED <<gw, db>>
  /\ pc = "comments"
  /\ \E script \in Scripts :
       LET video_id == videos_to_process[vidx].id
           r    == api_call_with_retry(script, "commentThreads.list", quota_used)
           page == IF next_page_token = 0 THEN 1 ELSE next_page_token
           resp == PageResponse(CommentPages(video_id), next_page_token)
           cl   == comments_list \o PageComments(resp.items, video_id)
           ta   == threads_acc \o PageThreads(resp.items)
           x    == fetch_video_comments_except(r.e, comments_list, threads_acc)
       IN  /\ Observe("commentThreads.list", "comments", video_id, page, r)
           /\ IF r.returned
              THEN IF resp.nextPageToken # 0
                   THEN /\ comments_list' = cl
                        /\ threads_acc' = ta
                        /\ next_page_token' = resp.nextPageToken
                        /\ UNCHANGED <<pc, exit_status, vidx, new_comments,
                                       threads_with_replies, new_sub_comments,
                                       tidx, sub_comments_list>>
                   ELSE CommentsReturned(cl, ta) /\ exit_status' = exit_status
              ELSE IF x.raised
                   THEN Handled(VideoErrorHandler(r.e))
                   ELSE CommentsReturned(x.comments, x.threads)
                        /\ exit_status' = exit_status
  /\ UNCHANGED <<run, fs, state, all_videos, videos_to_process,
                 failed_reply_fetches, aw, hist>>

\* fetch_comment_replies has returned replies for the current reply-pointer,
\* or the inner handler has recorded its failure: on to the next pointer
NextThread(subs, failed) ==
  /\ new_sub_comments' = subs
  /\ failed_reply_fetches' = failed
  /\ pc' = IF tidx + 1 > Len(threads_with_replies) THEN "merge" ELSE "replies"
  /\ tidx' = tidx + 1
  /\ next_page_token' = 0
  /\ sub_comments_list' = << >>
  /\ UNCHANGED <<exit_status, vidx, comments_list, threads_acc, new_comments,
                 threads_with_replies>>

\* one page of fetch_comment_replies, with the reply loop around it
FetchRepliesPage ==
  /\ UNCHANGED <<gw, db>>
  /\ pc = "replies"
  /\ \E script \in Scripts :
       LET video_id == videos_to_process[vidx].id
           parent   == threads_with_replies[tidx][1]
           reply_count == threads_with_replies[tidx][2]
           r    == api_call_with_retry(script, "comments.list", quota_used)
           page == IF next_page_token = 0 THEN 1 ELSE next_page_token
           resp == PageResponse(ReplyPages(parent), next_page_token)
           acc  == sub_comments_list \o PageReplies(resp.items, parent, video_id)
           x    == fetch_comment_replies_except(r.e, sub_comments_list)
       IN  /\ Observe("comments.list", "replies", parent, page, r)
           /\ IF r.returned
              THEN IF resp.nextPageToken # 0
                   THEN /\ sub_comments_list' = acc
                        /\ next_page_token' = resp.nextPageToken
                        /\ UNCHANGED <<pc, exit_status, vidx, comments_list, threads_acc,
                                       new_comments, threads_with_replies,
                                       new_sub_comments, tidx,
                                       failed_reply_fetches>>
                   ELSE NextThread(new_sub_comments \o acc,
                                   Validate(failed_reply_fetches, parent,
                                            video_id, reply_count, acc))
              ELSE IF ~ x.raised
                   THEN NextThread(new_sub_comments \o x.replies,
                                   Validate(failed_reply_fetches, parent,
                                            video_id, reply_count, x.replies))
                   ELSE IF ReplyLoopCatches(r.e)
                        THEN NextThread(new_sub_comments,
                                        Append(failed_reply_fetches,
                                               Discrepancy(parent, video_id,
                                                           reply_count, 0,
                                                           reply_count, TRUE)))
                        ELSE /\ Handled(VideoErrorHandler(r.e))
                             /\ UNCHANGED failed_reply_fetches
  /\ UNCHANGED <<run, fs, state, all_videos, videos_to_process, aw, hist>>

(***************************************************************************)
(* atomic_write_json                                                       *)
(***************************************************************************)
\* the call: atomic_write_json(file_path, data), to continue at ret
BeginWrite(file_path, data, ret) ==
  /\ aw' = [file_path |-> file_path, data |-> data, ret |-> ret]
  /\ hw' = [path |-> file_path, old |-> fs[file_path], new |-> JsonDump(data)]
  /\ pc' = "aw_create"

\* NamedTemporaryFile(dir=dir_path, delete=False)
AwCreate ==
  /\ UNCHANGED <<gw, db>>
  /\ pc = "aw_create"
  /\ fs' = TempWrite(fs, "tmp", aw.file_path, EmptyText)
  /\ pc' = "aw_dump"
  /\ UNCHANGED <<exit_status, run, quota_used, state, work, next_page_token,
                 video, failed_reply_fetches, aw, obs, hist>>

\* part of the text has reached the temporary file
AwDumpPartial ==
  /\ UNCHANGED <<gw, db>>
  /\ pc = "aw_dump"
  /\ fs["tmp"] = EmptyText
  /\ \E k \in 0..Len(aw.data) :
       fs' = TempWrite(fs, "tmp", aw.file_path, JsonPrefix(aw.data, k))
  /\ UNCHANGED <<ctl, quota_used, state, work, next_page_token,
                 video, failed_reply_fetches, aw, obs, hist>>

\* json.dump, flush, fsync: the whole text is in the temporary file
AwDump ==
  /\ UNCHANGED <<gw, db>>
  /\ pc = "aw_dump"
  /\ fs' = TempWrite(fs, "tmp", aw.file_path, JsonDump(aw.data))
  /\ pc' = "aw_replace"
  /\ UNCHANGED <<exit_status, run, quota_used, state, work, next_page_token,
                 video, failed_reply_fetches, aw, obs, hist>>

\* os.replace, and return to the caller
AwReplace ==
  /\ UNCHANGED <<gw, db>>
  /\ pc = "aw_replace"
  /\ fs' = Replace(fs, "tmp", aw.file_path)
  /\ pc' = aw.ret
  /\ aw' = NoWrite
  /\ UNCHANGED <<exit_status, run, quota_used, state, work, next_page_token,
                 video, failed_reply_fetches, obs, hist>>

(***************************************************************************)
(* The flush after each video, steps 9 and 10, and the ways a run ends     *)
(***************************************************************************)
\* a flush that keeps the comments of the current video alone
Merge_Overwrite ==
  /\ UNCHANGED <<gw, db>>
  /\ pc = "merge"
  /\ master_comments_list' = new_comments
  /\ master_sub_comments_list' = master_sub_comments_list \o new_sub_comments
  /\ BeginWrite("comments", master_comments_list', "save_subs")
  /\ UNCHANGED <<exit_status, run, fs, quota_used, processed_videos_set, work,
                 next_page_token, video, failed_reply_fetches, obs, prev>>

\* extend the master lists and save the comments file
Merge ==
  /\ UNCHANGED <<gw, db>>
  /\ pc = "merge"
  /\ master_comments_list' = master_comments_list \o new_comments
  /\ master_sub_comments_list' = master_sub_comments_list \o new_sub_comments
  /\ BeginWrite("comments", master_comments_list', "save_subs")
  /\ UNCHANGED <<exit_status, run, fs, quota_used, processed_videos_set, work,
                 next_page_token, video, failed_reply_fetches, obs, prev>>

\* a flush that leaves the sub-comments file as it was
SaveSubComments_Skipped ==
  /\ UNCHANGED <<gw, db>>
  /\ pc = "save_subs"
  /\ pc' = "next_video"
  /\ UNCHANGED <<exit_status, run, fs, quota_used, state, work,
                 next_page_token, video, failed_reply_fetches, aw, obs, hist>>

\* save the sub-comments file
SaveSubComments ==
  /\ UNCHANGED <<gw, db>>
  /\ pc = "save_subs"
  /\ BeginWrite("sub_comments", master_sub_comments_list, "next_video")
  /\ UNCHANGED <<exit_status, run, fs, quota_used, state, work,
                 next_page_token, video, failed_reply_fetches, obs, prev>>

\* a loop that passes over a worklist video
NextVideo_SkipOne ==
  /\ UNCHANGED <<gw, db>>
  /\ pc = "next_video"
  /\ BeginVideo(vidx + 2, videos_to_process)
  /\ UNCHANGED <<exit_status, run, fs, quota_used, state, all_videos,
                 videos_to_process, failed_reply_fetches, aw, obs, hist>>

\* the for loop takes the next worklist video
NextVideo ==
  /\ UNCHANGED <<gw, db>>
  /\ pc = "next_video"
  /\ BeginVideo(vidx + 1, videos_to_process)
  /\ UNCHANGED <<exit_status, run, fs, quota_used, state, all_videos,
                 videos_to_process, failed_reply_fetches, aw, obs, hist>>

\* Step 9: save the failed reply fetches, if any
SaveFailed ==
  /\ UNCHANGED <<gw, db>>
  /\ pc = "step9"
  /\ IF failed_reply_fetches # << >>
     THEN BeginWrite("failed_replies", failed_reply_fetches, "step10")
     ELSE pc' = "step10" /\ UNCHANGED <<aw, hw>>
  /\ UNCHANGED <<exit_status, run, fs, quota_used, state, work,
                 next_page_token, video, failed_reply_fetches, obs, prev>>

\* Step 10: the completion message; the process ends with status 0
Complete ==
  /\ UNCHANGED <<gw, db>>
  /\ pc = "step10"
  /\ pc' = "done"
  /\ exit_status' = 0
  /\ UNCHANGED <<run, fs, quota_used, state, work, next_page_token, video,
                 failed_reply_fetches, aw, obs, hist>>

\* the process is killed (SIGKILL, power loss): nothing more is executed
Kill ==
  /\ UNCHANGED <<gw, db>>
  /\ ~ Over
  /\ pc' = "killed"
  /\ UNCHANGED <<exit_status, run, fs, quota_used, state, work,
                 next_page_token, video, failed_reply_fetches, aw, obs, hist>>

\* KeyboardInterrupt: caught at the top level, exit(0)
Interrupt ==
  /\ UNCHANGED <<gw, db>>
  /\ ~ Over
  /\ pc' = "interrupted"
  /\ exit_status' = 0
  /\ UNCHANGED <<run, fs, quota_used, state, work, next_page_token, video,
                 failed_reply_fetches, aw, obs, hist>>

Next ==
  \/ Start
  \/ Resolve
  \/ Load
  \/ Playlist
  \/ ListPage
  \/ Filter
  \/ FetchCommentsPage
  \/ FetchRepliesPage
  \/ Merge
  \/ SaveSubComments
  \/ NextVideo
  \/ SaveFailed
  \/ Complete
  \/ AwCreate
  \/ AwDumpPartial
  \/ AwDump
  \/ AwReplace
  \/ Kill
  \/ Interrupt

Spec == Init /\ [][Next]_vars


(***************************************************************************)
(* Reference values computed from the upstream data                        *)
(***************************************************************************)
RECURSIVE FlattenIds(_)
FlattenIds(pages) ==
  IF pages = << >> THEN << >> ELSE Head(pages) \o FlattenIds(Tail(pages))

\* the listed video ids, in source order
Listed == FlattenIds(VideoPages)

RECURSIVE BatchFrom(_, _)
BatchFrom(pages, v) ==
  IF pages = << >> THEN << >>
  ELSE PageComments(Head(pages), v) \o BatchFrom(Tail(pages), v)

\* all the comments of video v: one video's worth
Batch(v) == BatchFrom(CommentPages(v), v)

RECURSIVE RepliesFrom(_, _, _)
RepliesFrom(pages, t, v) ==
  IF pages = << >> THEN << >>
  ELSE PageReplies(Head(pages), t, v) \o RepliesFrom(Tail(pages), t, v)

\* all the replies of thread t of video v
AllReplies(t, v) == RepliesFrom(ReplyPages(t), t, v)

Range(seq) == {seq[i] : i \in 1..Len(seq)}

IsPrefix(a, b) == Len(a) <= Len(b) /\ SubSeq(b, 1, Len(a)) = a

RECURSIVE IsBatchConcat(_)
\* seq is a concatenation of complete, non-empty per-video batches
IsBatchConcat(seq) ==
  \/ seq = << >>
  \/ \E v \in Range(Listed) :
       LET b == Batch(v)
       IN  /\ b # << >>
           /\ IsPrefix(b, seq)
           /\ IsBatchConcat(SubSeq(seq, Len(b) + 1, Len(seq)))

\* the persisted files hold the comments and all the replies of every listed
\* video that has comments
AllPersisted ==
  \A v \in Range(Listed) :
    Batch(v) # << >> =>
      /\ Range(Batch(v)) \subseteq Range(load_state(fs["comments"]).comments)
      /\ \A p \in 1..Len(CommentPages(v)) :
           \A i \in 1..Len(CommentPages(v)[p]) :
             Range(AllReplies(CommentPages(v)[p][i][1], v))
               \subseteq Range(load_sub_comments(fs["sub_comments"]).sub_comments)

RECURSIVE ZeroCommentVideos(_)
\* the listed videos without any comment, in source order
ZeroCommentVideos(ids) ==
  IF ids = << >> THEN << >>
  ELSE IF Batch(Head(ids)) = << >>
       THEN <<VideoObj(Head(ids))>> \o ZeroCommentVideos(Tail(ids))
       ELSE ZeroCommentVideos(Tail(ids))

\* the reason of the failure the last gateway call ended with ("" if none)
LastReason == IF ev.raised /\ ev.e.http THEN parse_http_error_reason(ev.e) ELSE ""

\* positions after the per-video loop
PostLoop == {"step9", "step10", "done", "killed", "interrupted"}
InPostLoop ==
  \/ pc \in PostLoop
  \/ pc \in {"aw_create", "aw_dump", "aw_replace"} /\ aw.file_path = "failed_replies"

(***************************************************************************)
(* Properties                                                              *)
(***************************************************************************)

\* C1: at every point of atomic_write_json, and after a kill at any of its
\* steps, the target file is absent or complete, and it holds either the
\* content it had when the write began or the complete new content.
C1_AtomicWrite ==
  /\ \A p \in Paths \ {"tmp"} : fs[p].exists => JsonValid(fs[p])
  /\ hw.path # "none" => fs[hw.path] \in {hw.old, hw.new}

\* a kill while the temporary file is partly written, the target still old
C1_Witness ==
  /\ pc = "killed"
  /\ hw.path = "comments"
  /\ fs["tmp"].exists /\ ~ JsonValid(fs["tmp"])
  /\ hw.old.exists /\ hw.old # hw.new
  /\ fs["comments"] = hw.old

\* C2: a run killed at any point, then restarted and run to completion with
\* no gateway failure anywhere, leaves the comments and all the replies of
\* every listed video that has comments in the persisted files.
C2_CrashLosesOnlyInFlight ==
  (pc \in {"done", "noop"} /\ prev.outcome = "killed" /\ ~ everfail)
    => AllPersisted

\* C3: whatever point the process was killed at, load_state returns a
\* concatenation of complete per-video comment batches.
C3_WholeBatches ==
  IsBatchConcat(load_state(fs["comments"]).comments)

\* a restart after a kill has loaded some, not all, of the videos' batches
C3_Witness ==
  /\ prev.outcome = "killed"
  /\ pc = "playlist"
  /\ master_comments_list = Batch("V1")
  /\ processed_videos_set = {create_video_link("V1")}

\* C4 as stated: a second complete run after a complete run, no gateway call
\* of either having failed, leaves both files as they were and has an empty
\* worklist.
C4_Original ==
  (pc \in {"done", "noop"} /\ prev.outcome = "complete" /\ ~ everfail)
    => /\ fs["comments"] = prev.comments
       /\ fs["sub_comments"] = prev.sub_comments
       /\ videos_to_process = << >>

\* C4 amended: a complete run that follows a complete run in which no comment
\* fetch failed leaves both files as they were, and its worklist is exactly
\* the listed videos that have no comments.
C4_IdempotentResume ==
  (pc \in {"done", "noop"} /\ prev.outcome = "complete")
    => /\ fs["comments"] = prev.comments
       /\ fs["sub_comments"] = prev.sub_comments
       /\ videos_to_process = ZeroCommentVideos(Listed)

\* the second run has re-fetched the comment-less video and rewritten the files
C4_Witness ==
  /\ pc = "done"
  /\ prev.outcome = "complete"
  /\ prev.comments.exists /\ prev.comments.items # << >>
  /\ videos_to_process # << >>
  /\ hw.path = "sub_comments"

\* C5: once a comment fetch has failed with quotaExceeded, that failed call is
\* the last gateway call of the run, the loop has been left, nothing of the
\* video was merged and both files equal the master sequences.
C5_QuotaStopsLoop ==
  "comments" \in quota_at
    => /\ ev.stage = "comments" /\ LastReason = "quotaExceeded"
       /\ InPostLoop
       /\ load_state(fs["comments"]).comments = master_comments_list
       /\ load_sub_comments(fs["sub_comments"]).sub_comments = master_sub_comments_list

\* worklist [V1, V2, V3]: V1 gave 2 comments, V2 met quotaExceeded
C5_Witness ==
  /\ pc = "done"
  /\ Len(videos_to_process) = 3
  /\ ev.stage = "comments" /\ ev.arg = "V2" /\ LastReason = "quotaExceeded"
  /\ master_comments_list = Batch("V1")
  /\ Len(master_comments_list) = 2
  /\ load_state(fs["comments"]).comments = master_comments_list

\* C6: once a reply fetch has failed with quotaExceeded, that failed call is
\* the last gateway call of the run and the loop has been left.
C6_ReplyQuotaStopsLoop ==
  "replies" \in quota_at
    => /\ ev.stage = "replies" /\ LastReason = "quotaExceeded"
       /\ InPostLoop

CommentFetchFailed ==
  /\ pc = "comments"
  /\ pc' \notin {"killed", "interrupted"}
  /\ ev'.raised

\* the loop goes on with the next worklist video, nothing kept of this one
SkippedToNext ==
  /\ vidx' = vidx + 1
  /\ pc' = IF vidx < Len(videos_to_process) THEN "comments" ELSE "step9"
  /\ new_comments' = << >> /\ new_sub_comments' = << >>
  /\ comments_list' = << >> /\ threads_with_replies' = << >>
  /\ UNCHANGED <<fs, state, failed_reply_fetches, videos_to_process, exit_status>>

\* C8: a comment fetch that fails with commentsDisabled adds no comment, no
\* reply and no discrepancy, leaves the processed set alone, and the loop
\* continues with the next worklist video.
C8_SkipOnDisabled ==
  [][ (CommentFetchFailed /\ ev'.e.http
         /\ parse_http_error_reason(ev'.e) = "commentsDisabled")
        => SkippedToNext ]_vars

\* V1 was skipped for disabled comments and V2 is being fetched
C8_Witness ==
  /\ pc = "comments"
  /\ vidx = 2
  /\ ev.stage = "comments" /\ ev.arg = "V1" /\ LastReason = "commentsDisabled"
  /\ master_comments_list = << >>
  /\ failed_reply_fetches = << >>

C11_DiscrepancyDetection ==
  [][ (pc = "replies" /\ pc' \notin {"killed", "interrupted"} /\ tidx' = tidx + 1)
        => LET expected == threads_with_replies[tidx][2]
               fetched  == Len(new_sub_comments') - Len(new_sub_comments)
               n        == Len(failed_reply_fetches)
           IN  /\ IF ev'.raised \/ fetched # expected
                  THEN /\ Len(failed_reply_fetches') = n + 1
                       /\ SubSeq(failed_reply_fetches', 1, n) = failed_reply_fetches
                       /\ failed_reply_fetches'[n + 1].parent_comment_id
                            = threads_with_replies[tidx][1]
                       /\ failed_reply_fetches'[n + 1].expected_count = expected
                       /\ failed_reply_fetches'[n + 1].fetched_count = fetched
                  ELSE failed_reply_fetches' = failed_reply_fetches
               /\ \A i \in 1..Len(failed_reply_fetches') :
                    failed_reply_fetches'[i].missing_count
                      = failed_reply_fetches'[i].expected_count
                        - failed_reply_fetches'[i].fetched_count
               /\ pc' \in {"replies", "merge"}
               /\ UNCHANGED <<vidx, new_comments, exit_status>> ]_vars

\* both pointers of V1 fetched in full: none recorded for t1 (2 of 2), one for
\* t2 (1 of 2, missing 1)
C11_Witness ==
  /\ pc = "merge"
  /\ Len(new_sub_comments) = 3
  /\ failed_reply_fetches = <<Discrepancy("t2", "V1", 2, 1, 1, FALSE)>>


IsSuffix(a, b) ==
  Len(a) <= Len(b) /\ SubSeq(b, Len(b) - Len(a) + 1, Len(b)) = a

\* C12: the loop leaves a worklist video whose comment fetch succeeded only
\* after the video's comments and fetched replies have been appended to the
\* master sequences and both files rewritten to equal them; gateway calls of
\* the loop are always for the current worklist video, so none for the next
\* video precedes the commit.
C12_PerVideoCommit ==
  [][ /\ (vidx >= 1 /\ vidx' = vidx + 1)
         => \/ CommentFetchFailed
            \/ /\ pc = "next_video"
               /\ new_comments = Batch(videos_to_process[vidx].id)
               /\ IsSuffix(new_comments, master_comments_list)
               /\ IsSuffix(new_sub_comments, master_sub_comments_list)
               /\ fs["comments"] = JsonDump(master_comments_list)
               /\ fs["sub_comments"] = JsonDump(master_sub_comments_list)
      /\ (pc = "comments" /\ pc' \notin {"killed", "interrupted"})
         => ev'.stage = "comments" /\ ev'.arg = videos_to_process[vidx].id
      /\ (pc = "replies" /\ pc' \notin {"killed", "interrupted"})
         => /\ ev'.stage = "replies"
            /\ \E i \in 1..Len(new_comments) :
                 new_comments[i] = CommentObj(<<ev'.arg>>, videos_to_process[vidx].id)
    ]_vars

\* V1 is committed with its three replies and the loop is at V2, before V2's
\* first gateway call
C12_Witness ==
  /\ run = 1
  /\ pc = "comments" /\ vidx = 2 /\ next_page_token = 0
  /\ master_comments_list = Batch("V1")
  /\ Len(master_sub_comments_list) = 3
  /\ fs["comments"] = JsonDump(master_comments_list)
  /\ fs["sub_comments"] = JsonDump(master_sub_comments_list)
  /\ ev.stage = "replies"


(***************************************************************************)
(* The gateway called on its own: any operation type, any behaviour of the *)
(* thunk on its successive invocations                                     *)
(***************************************************************************)
MaxCalls == 2

\* the operation_type argument: a key of QUOTA_COSTS, or None ("")
OperationTypes == DOMAIN QUOTA_COSTS \cup {""}

\* what one invocation of the thunk can do
Outcomes == {OK, E429, E503, EQuota, ENonHttp}

\* the thunk's outcome on each invocation it may get
ThunkScripts == [1..retry_attempts -> Outcomes]

\* one call of api_call_with_retry
GatewayCall ==
  /\ gw.n < MaxCalls
  /\ \E operation_type \in OperationTypes, script \in ThunkScripts :
       LET r == api_call_with_retry(script, operation_type, quota_used)
       IN  /\ quota_used' = r.quota
           /\ gw' = [n      |-> gw.n + 1,
                     succ   |-> IF r.returned /\ operation_type \in DOMAIN QUOTA_COSTS
                                THEN [gw.succ EXCEPT ![operation_type] = @ + 1]
                                ELSE gw.succ,
                     op     |-> operation_type,
                     script |-> script,
                     r      |-> r]
  /\ UNCHANGED <<ctl, fs, state, work, next_page_token, video,
                 failed_reply_fetches, aw, obs, hist, db>>

GatewayNext == GatewayCall

SpecGateway == Init /\ [][GatewayNext]_vars

RECURSIVE SumCosts(_, _)
\* the sum over the operation kinds of ops of count x fixed cost
SumCosts(succ, ops) ==
  IF ops = {} THEN 0
  ELSE LET op == CHOOSE x \in ops : TRUE
       IN  succ[op] * QUOTA_COSTS[op] + SumCosts(succ, ops \ {op})

\* C13: after any sequence of gateway calls the counter is the sum over the
\* operation kinds of (successful calls of the kind) x (the kind's cost).
C13_QuotaAccounting ==
  quota_used = SumCosts(gw.succ, DOMAIN QUOTA_COSTS)

\* a successful playlistItems.list call, then a successful search.list call
C13_Witness ==
  /\ gw.n = 2
  /\ gw.op = "search.list" /\ gw.r.returned
  /\ gw.succ["playlistItems.list"] = 1
  /\ quota_used = 101

\* C14: a gateway call changes the counter by the cost of its operation type
\* if it returns (on whichever attempt) and names one, and by nothing if it
\* ends in failure or names none; nothing decrements the counter.
C14_QuotaOncePerSuccess ==
  [][ /\ quota_used' >= quota_used
      /\ gw'.n = gw.n + 1
           => quota_used' - quota_used
                = IF gw'.r.returned /\ gw'.op # ""
                  THEN QUOTA_COSTS[gw'.op] ELSE 0
      /\ gw'.n = gw.n => quota_used' = quota_used ]_vars

\* a search.list call that returned on its third attempt, after a call that
\* ended in failure: 100 units in all
C14_Witness ==
  /\ gw.n = 2
  /\ gw.op = "search.list"
  /\ gw.r.returned /\ gw.r.attempts = 3
  /\ quota_used = 100

\* a failure after which the gateway retries, by the claims' definition
Retryable(o) == ~ o.ok /\ o.http /\ o.status \in {429, 503}

\* how many invocations a thunk behaving as script should get
Invocations(script) ==
  IF \E i \in 1..retry_attempts : ~ Retryable(script[i])
  THEN CHOOSE i \in 1..retry_attempts :
         /\ ~ Retryable(script[i])
         /\ \A j \in 1..(i - 1) : Retryable(script[j])
  ELSE retry_attempts

\* C15: the thunk is invoked at most retry_attempts times, once more after
\* each 429/503 failure and after none else; each retry is preceded by one
\* backoff wait; the failure of the last attempt is raised with no wait.
C15_BoundedRetry ==
  gw.n > 0 =>
    /\ gw.r.attempts <= retry_attempts
    /\ gw.r.attempts = Invocations(gw.script)
    /\ Len(gw.r.waits) = gw.r.attempts - 1
    /\ \A i \in 1..Len(gw.r.waits) : gw.r.waits[i] = i - 1
    /\ ~ gw.script[gw.r.attempts].ok
         => gw.r.raised /\ ~ gw.r.returned /\ gw.r.e = gw.script[gw.r.attempts]

\* three attempts, all rate-limited or unavailable: two waits, then raised
C15_Witness ==
  /\ gw.n > 0
  /\ gw.script = <<E429, E503, E503>>
  /\ gw.r.attempts = 3 /\ gw.r.waits = <<0, 1>>
  /\ gw.r.raised /\ gw.r.e = E503

\* C16: a failure that is neither 429 nor 503, on whichever attempt, is
\* raised as it is: the thunk is not invoked again and no wait follows.
C16_NonRetryableImmediate ==
  gw.n > 0 =>
    \A k \in 1..retry_attempts :
      (/\ \A j \in 1..(k - 1) : Retryable(gw.script[j])
       /\ ~ gw.script[k].ok
       /\ ~ Retryable(gw.script[k]))
        => /\ gw.r.raised /\ ~ gw.r.returned
           /\ gw.r.e = gw.script[k]
           /\ gw.r.attempts = k
           /\ Len(gw.r.waits) = k - 1

\* a non-HTTP failure on the second attempt, though a third would succeed
C16_Witness ==
  /\ gw.n > 0
  /\ gw.script = <<E429, ENonHttp, OK>>
  /\ gw.r.raised /\ gw.r.e = ENonHttp /\ gw.r.attempts = 2
  /\ gw.r.waits = <<0>>


(***************************************************************************)
(* The backoff wait.  Times are floating-point numbers with a significand  *)
(* of MantissaBits bits (53 in the program), written as multiples of       *)
(* 2^-MantissaBits seconds.                                                *)
(***************************************************************************)
MantissaBits == 5

Second == 2 ^ MantissaBits

\* random.uniform(0, 1) = 0 + (1 - 0) * random(): a multiple of
\* 2^-MantissaBits in [0, 1)
Jitters == 0..(Second - 1)

\* x rounded to a multiple of spacing, to the nearest, ties to the even one
RoundHalfEven(x, spacing) ==
  LET q == x \div spacing
      r == x % spacing
  IN  IF 2 * r < spacing THEN q * spacing
      ELSE IF 2 * r > spacing THEN (q + 1) * spacing
      ELSE IF q % 2 = 0 THEN q * spacing ELSE (q + 1) * spacing

\* a wait with neither base nor rounding
wait_time_JitterOnly(attempt, jitter) == jitter

\* wait_time = (2 ** attempt) + random.uniform(0, 1): the float sum, rounded
\* to the spacing 2^(attempt + 1 - MantissaBits) s of [2^attempt, 2^(attempt+1)]
wait_time(attempt, jitter) ==
  RoundHalfEven((2 ^ attempt) * Second + jitter, 2 ^ (attempt + 1))

\* a 429/503 failure on some attempt, with some jitter, not yet handled
BackoffInputs ==
  {[attempt |-> a, jitter |-> j, slept |-> FALSE, raised |-> FALSE, wait_time |-> 0] :
     a \in 0..(retry_attempts - 1), j \in Jitters}

BackoffInit ==
  /\ Fresh
  /\ run = 1
  /\ fs = [p \in Paths |-> Absent]
  /\ everfail = FALSE
  /\ prev = NoPrev
  /\ hw = NoHw
  /\ gw \in BackoffInputs
  /\ db = NoDb

\* the 429/503 branch of api_call_with_retry
RetryableFailure ==
  /\ ~ gw.slept /\ ~ gw.raised
  /\ gw' = IF gw.attempt < retry_attempts - 1
           THEN [gw EXCEPT !.slept = TRUE,
                           !.wait_time = wait_time(gw.attempt, gw.jitter)]
           ELSE [gw EXCEPT !.raised = TRUE]
  /\ UNCHANGED <<ctl, fs, quota_used, state, work, next_page_token, video,
                 failed_reply_fetches, aw, obs, hist, db>>

BackoffNext == RetryableFailure

SpecBackoff == BackoffInit /\ [][BackoffNext]_vars

\* C17 as stated: every computed wait is at least 2^attempt seconds and less
\* than 2^attempt + 1 seconds.
C17_Original ==
  gw.slept =>
    /\ (2 ^ gw.attempt) * Second <= gw.wait_time
    /\ gw.wait_time < (2 ^ gw.attempt + 1) * Second

\* C17: a wait is computed after the failure of attempts 0..retry_attempts-2
\* and of no other; it is at least 2^attempt seconds and at most 2^attempt + 1
\* seconds, the upper end being reached when the sum rounds up.
C17_BackoffGrowth ==
  /\ gw.slept =>
       /\ gw.attempt <= retry_attempts - 2
       /\ (2 ^ gw.attempt) * Second <= gw.wait_time
       /\ gw.wait_time <= (2 ^ gw.attempt + 1) * Second
       /\ gw.jitter < Second
  /\ gw.raised => gw.attempt = retry_attempts - 1 /\ gw.wait_time = 0

\* attempt 1 with the largest jitter: the sum rounds to 3 seconds
C17_Witness ==
  /\ gw.slept
  /\ gw.attempt = 1
  /\ gw.jitter = Second - 1
  /\ gw.wait_time = 3 * Second


(***************************************************************************)
(* Step 4 on its own: the output directory holds whatever an earlier run,  *)
(* another program or an editor left in the two files                      *)
(***************************************************************************)
\* texts of the comments file
CommentFileStates ==
  { Absent, EmptyText, JsonPrefix(Batch("V1"), 1),
    JsonDump(<< >>), JsonDump(Batch("V1")),
    JsonDump(<<JsonNumber>>),
    JsonDump(<<SubCommentObj("r1", "t1", "V1")>>),
    JsonDump(Batch("V1") \o <<JsonNumber>>),
    JsonDump(Batch("V1") \o <<SubCommentObj("r1", "t1", "V1")>>),
    Document("number"), Document("object"), Document("bytes") }

\* texts of the sub-comments file
SubCommentFileStates ==
  { Absent, EmptyText, JsonPrefix(AllReplies("t1", "V1"), 1),
    JsonDump(<< >>), JsonDump(AllReplies("t1", "V1")),
    JsonDump(<<JsonNumber>>),
    JsonDump(Batch("V1")),
    Document("bytes") }

\* the process has resolved a channel URL and is about to load
LoadInit ==
  /\ pc = "load"
  /\ exit_status = -1
  /\ run = 1
  /\ \E c \in CommentFileStates, sc \in SubCommentFileStates :
       fs = [p \in Paths |-> IF p = "comments" THEN c
                             ELSE IF p = "sub_comments" THEN sc ELSE Absent]
  /\ quota_used = 0
  /\ processed_videos_set = {}
  /\ master_comments_list = << >>
  /\ master_sub_comments_list = << >>
  /\ all_videos = << >>
  /\ videos_to_process = << >>
  /\ vidx = 0
  /\ next_page_token = 0
  /\ comments_list = << >>
  /\ threads_acc = << >>
  /\ new_comments = << >>
  /\ threads_with_replies = << >>
  /\ new_sub_comments = << >>
  /\ tidx = 0
  /\ sub_comments_list = << >>
  /\ failed_reply_fetches = << >>
  /\ aw = NoWrite
  /\ ev = NoEvent
  /\ quota_at = {}
  /\ cfail = FALSE
  /\ everfail = FALSE
  /\ prev = NoPrev
  /\ hw = NoHw
  /\ gw = NoCall
  /\ db = NoDb

LoadNext == Load

SpecLoad == LoadInit /\ [][LoadNext]_vars

\* a complete array of records that all have a videoLink
WellFormedComments(file) ==
  /\ file.exists
  /\ "top" \notin DOMAIN file
  /\ file.open /\ file.close
  /\ \A i \in 1..Len(file.items) :
       "json" \notin DOMAIN file.items[i] /\ "videoLink" \in DOMAIN file.items[i]

\* a complete array of reply records
WellFormedSubComments(file) ==
  /\ file.exists
  /\ "top" \notin DOMAIN file
  /\ file.open /\ file.close
  /\ \A i \in 1..Len(file.items) :
       "json" \notin DOMAIN file.items[i] /\ "subComment" \in DOMAIN file.items[i]

\* C18: whatever the comments file holds (the sub-comments file being
\* absent), load_state returns and the run goes on to the playlist step,
\* with an empty processed set and no comments unless the file is well-formed.
C18_LoadStateNeverRaises ==
  (pc # "load" /\ fs["sub_comments"] = Absent)
    => /\ pc = "playlist"
       /\ ~ WellFormedComments(fs["comments"])
            => processed_videos_set = {} /\ master_comments_list = << >>

\* C19: whatever the sub-comments file holds (the comments file being
\* absent), load_sub_comments returns and the run goes on to the playlist
\* step, with no replies unless the file is a well-formed array of replies.
C19_LoadSubCommentsDegrades ==
  (pc # "load" /\ fs["comments"] = Absent)
    => /\ pc = "playlist"
       /\ ~ WellFormedSubComments(fs["sub_comments"])
            => master_sub_comments_list = << >>


\* the videos of all whose link is not in processed, in the order of all
KeptInOrder(all, processed) ==
  LET keep == {i \in 1..Len(all) : create_video_link(all[i].id) \notin processed}
  IN  [k \in 1..Cardinality(keep) |->
         all[CHOOSE i \in keep : Cardinality({j \in keep : j <= i}) = k]]

\* C20: the load sets the processed set to the videoLink values of the
\* comments it loaded and no later step of the run changes it; the filter
\* sets the worklist to the listed videos whose link is not in the set, in
\* listing order, and no later step of the run changes it.
C20_ProcessedAndWorklist ==
  [][ /\ (pc = "load" /\ pc' = "playlist")
         => processed_videos_set'
              = {master_comments_list'[i].videoLink :
                   i \in 1..Len(master_comments_list')}
      /\ (pc # "load" /\ run' = run)
         => processed_videos_set' = processed_videos_set
      /\ (pc = "filter" /\ pc' \notin {"killed", "interrupted"})
         => /\ all_videos = [i \in 1..Len(Listed) |-> VideoObj(Listed[i])]
            /\ videos_to_process' = KeptInOrder(all_videos, processed_videos_set)
      /\ (pc # "filter" /\ run' = run)
         => videos_to_process' = videos_to_process ]_vars

\* a second run after a complete one: V1 and V3 have comments on file, the
\* worklist is V2 alone, and V2's (empty) merge has left the set as loaded
C20_Witness ==
  /\ run = 2
  /\ pc = "next_video"
  /\ Len(master_comments_list) = 3
  /\ processed_videos_set = {create_video_link("V1"), create_video_link("V3")}
  /\ videos_to_process = <<VideoObj("V2")>>


\* C21: the loop goes through the worklist one video at a time, in order;
\* a gateway call of the loop is for the current video and finds everything
\* of the earlier videos on file; the comment-listing calls of a video are
\* made before any of its reply-listing calls, which start only when the
\* listing is complete.
C21_Ordering ==
  [][ /\ (run' = run /\ pc # "filter")
         => vidx' \in {vidx, vidx + 1}
      /\ (pc = "comments" /\ pc' \notin {"killed", "interrupted"})
         => /\ ev'.stage = "comments"
            /\ ev'.arg = videos_to_process[vidx].id
            /\ tidx = 0 /\ new_sub_comments = << >> /\ sub_comments_list = << >>
            /\ load_state(fs["comments"]).comments = master_comments_list
            /\ load_sub_comments(fs["sub_comments"]).sub_comments
                 = master_sub_comments_list
      /\ (pc = "replies" /\ pc' \notin {"killed", "interrupted"})
         => /\ ev'.stage = "replies"
            /\ ev'.arg = threads_with_replies[tidx][1]
            /\ new_comments = Batch(videos_to_process[vidx].id)
            /\ pc' # "comments"
            /\ load_state(fs["comments"]).comments = master_comments_list
      /\ (pc' = "comments" /\ pc \notin {"comments", "filter"} /\ run' = run)
         => pc = "next_video" /\ vidx' = vidx + 1 ]_vars

\* first run: V1 is on file, V2 has been listed, V3's first call is next
C21_Witness ==
  /\ run = 1
  /\ pc = "comments" /\ vidx = 3
  /\ videos_to_process[3].id = "V3"
  /\ ev.stage = "comments" /\ ev.arg = "V2" /\ ~ ev.raised
  /\ Len(load_state(fs["comments"]).comments) = 2


\* the process is between the first gateway call for a worklist video and
\* the end of that video's flush
InVideo ==
  \/ pc \in {"replies", "merge", "save_subs"}
  \/ pc = "comments" /\ next_page_token # 0
  \/ pc \in {"aw_create", "aw_dump", "aw_replace"}
       /\ aw.file_path \in {"comments", "sub_comments"}

\* C22: a KeyboardInterrupt ends the run only at the loop boundary, never
\* while a video is being processed or flushed, in particular never between
\* the save of the comments file and the save of the sub-comments file.
C22_CancelAtLoopBoundary ==
  [][ pc' = "interrupted" => ~ InVideo ]_vars


\* C23: a run that cannot resolve its channel reference ends with status 1
\* with quota_used still 0, having loaded nothing and written nothing.
C23_ResolutionFailureFree ==
  [][ (pc = "resolve" /\ pc' = "fatal")
        => /\ exit_status' = 1
           /\ quota_used' = 0
           /\ UNCHANGED <<fs, state>> ]_vars


\* C24: search.list is the operation of a gateway call only in the resolve
\* step, for a handle or a custom name; the resolve step is the first thing
\* of a run and is not come back to, so there is at most one such call per
\* run; the calls of the later steps are of the other, one-unit kinds.
C24_ExpensiveOnlyInResolve ==
  [][ /\ (pc = "resolve" /\ pc' \notin {"killed", "interrupted"})
         => /\ ev = NoEvent /\ quota_used = 0
            /\ pc' # "resolve"
            /\ ev'.op = "search.list" => ev'.arg \in {"handle", "custom"}
            /\ quota_used' \in {0, 1, 100}
      /\ (pc \in {"playlist", "list", "comments", "replies"}
            /\ pc' \notin {"killed", "interrupted"})
         => /\ ev'.op \in DOMAIN QUOTA_COSTS \ {"search.list"}
            /\ QUOTA_COSTS[ev'.op] = 1
            /\ quota_used' - quota_used \in {0, 1}
      /\ (pc \notin {"resolve", "playlist", "list", "comments", "replies"}
            /\ run' = run)
         => ev' = ev /\ quota_used' = quota_used
      /\ (pc' = "resolve" /\ pc # "resolve") => run' = run + 1 ]_vars

\* a custom name was resolved with one search.list call: 100 units
C24_Witness ==
  /\ pc = "load"
  /\ ev.op = "search.list" /\ ev.arg = "custom" /\ ~ ev.raised
  /\ quota_used = 100


\* C25: when a run has ended, by the end of the script, by an exit or by a
\* KeyboardInterrupt, the diagnostic file holds the discrepancies the run
\* recorded if there are any, and is as the run found it if there are none.
C25_DiscrepanciesPersisted ==
  pc \in {"done", "noop", "fatal", "interrupted"}
    => IF failed_reply_fetches # << >>
       THEN fs["failed_replies"] = JsonDump(failed_reply_fetches)
       ELSE fs["failed_replies"] = prev.failed_replies


\* the number of pages a fetcher holding cursor tok has been given
PagesDone(tok) == IF tok = 0 THEN 0 ELSE tok - 1

\* a gateway call of a fetcher has returned
PageFetched ==
  /\ pc \in {"list", "comments", "replies"}
  /\ pc' \notin {"killed", "interrupted"}
  /\ ~ ev'.raised

\* the pages of the source the fetcher at work goes through
PagesAtWork ==
  CASE pc = "list"     -> VideoPages
    [] pc = "comments" -> CommentPages(videos_to_process[vidx].id)
    [] pc = "replies"  -> ReplyPages(threads_with_replies[tidx][1])

\* C26: each fetcher starts with no cursor; each call that returns is for
\* the page after those already accumulated, made with the cursor the
\* previous page returned; the fetcher goes on exactly while a next cursor is
\* returned, so as many calls return as there are pages; what it has
\* accumulated is the concatenation of the pages so far, and what it returns
\* that of all pages, in page order.
C26_Pagination ==
  [][ /\ (pc' \in {"list", "comments", "replies"}
            /\ (pc' # pc \/ vidx' # vidx \/ tidx' # tidx))
         => next_page_token' = 0
      /\ pc = "list"
         => all_videos
              = PageVideos(FlattenIds(SubSeq(VideoPages, 1,
                                             PagesDone(next_page_token))))
      /\ pc = "comments"
         => comments_list
              = BatchFrom(SubSeq(CommentPages(videos_to_process[vidx].id), 1,
                                 PagesDone(next_page_token)),
                          videos_to_process[vidx].id)
      /\ pc = "replies"
         => sub_comments_list
              = RepliesFrom(SubSeq(ReplyPages(threads_with_replies[tidx][1]), 1,
                                   PagesDone(next_page_token)),
                            threads_with_replies[tidx][1],
                            videos_to_process[vidx].id)
      /\ PageFetched
         => /\ ev'.page = PagesDone(next_page_token) + 1
            /\ ev'.page <= Len(PagesAtWork)
            /\ IF ev'.page < Len(PagesAtWork)
               THEN /\ pc' = pc /\ vidx' = vidx /\ tidx' = tidx
                    /\ next_page_token' = ev'.page + 1
               ELSE CASE pc = "list" ->
                           /\ pc' = "filter"
                           /\ all_videos' = PageVideos(Listed)
                      [] pc = "comments" ->
                           /\ pc' \in {"replies", "merge"}
                           /\ new_comments' = Batch(videos_to_process[vidx].id)
                      [] pc = "replies" ->
                           /\ tidx' = tidx + 1
                           /\ new_sub_comments'
                                = new_sub_comments
                                    \o AllReplies(threads_with_replies[tidx][1],
                                                  videos_to_process[vidx].id) ]_vars

\* the second and last page of V1's comments has been returned: the fetcher
\* has returned both pages' comments
C26_Witness ==
  /\ pc = "replies" /\ tidx = 1 /\ next_page_token = 0
  /\ ev.stage = "comments" /\ ev.arg = "V1" /\ ev.page = 2 /\ ~ ev.raised
  /\ new_comments = Batch("V1")
  /\ Len(all_videos) = 3


RECURSIVE FlattenThreads(_)
\* the threads of a video, page after page
FlattenThreads(pages) ==
  IF pages = << >> THEN << >> ELSE Head(pages) \o FlattenThreads(Tail(pages))

\* the threads that report at least one reply, in thread order
WithReplies(threads) ==
  LET keep == {i \in 1..Len(threads) : threads[i][2] > 0}
  IN  [k \in 1..Cardinality(keep) |->
         threads[CHOOSE i \in keep : Cardinality({j \in keep : j <= i}) = k]]

\* C27: when fetch_video_comments returns after its last page, the comments
\* are one per thread of the video, in thread order, and the reply-pointers
\* are (thread id, reported reply count) of exactly the threads reporting
\* more than zero replies, in thread order; reply fetches are made for these
\* pointers only, one after the other, and none if there is no pointer.
C27_CommentsAndPointers ==
  [][ /\ (pc = "comments" /\ pc' \in {"replies", "merge"})
         => LET v       == videos_to_process[vidx].id
                threads == FlattenThreads(CommentPages(v))
            IN  /\ new_comments'
                     = [i \in 1..Len(threads) |-> CommentObj(threads[i], v)]
                /\ threads_with_replies' = WithReplies(threads)
                /\ pc' = "merge" <=> threads_with_replies' = << >>
      /\ (pc = "replies" /\ pc' \notin {"killed", "interrupted"})
         => /\ tidx \in 1..Len(threads_with_replies)
            /\ ev'.arg = threads_with_replies[tidx][1]
            /\ threads_with_replies[tidx][2] > 0
            /\ UNCHANGED threads_with_replies ]_vars

\* V3's only thread reports no reply: one comment, no pointer, no reply fetch
C27_Witness ==
  /\ pc = "merge"
  /\ videos_to_process[vidx].id = "V3"
  /\ new_comments = <<CommentObj(<<"t3", 0>>, "V3")>>
  /\ threads_with_replies = << >>
  /\ ev.stage = "comments" /\ ev.arg = "V3" /\ ~ ev.raised


\* every reply of subs has its parent comment, of the same video, in comments
NoOrphans(comments, subs) ==
  \A i \in 1..Len(subs) :
    \E j \in 1..Len(comments) :
      /\ comments[j].comment = subs[i].parentCommentId
      /\ comments[j].videoLink = create_video_link(subs[i].videoLinkId)

\* C28: after a load, be it the degraded load of a comments file that is
\* not well-formed, every reply of the loaded reply sequence has its parent
\* comment in the loaded comment sequence.
C28_NoOrphanReplies ==
  (/\ pc = "playlist"
   /\ fs["comments"].exists /\ ~ WellFormedComments(fs["comments"])
   /\ WellFormedSubComments(fs["sub_comments"]))
    => NoOrphans(master_comments_list, master_sub_comments_list)


C30_ZeroCommentVideoRefetched ==
  [][ \A z \in Range(ZeroCommentVideos(Listed)) :
        /\ create_video_link(z.id) \notin processed_videos_set
        /\ (pc = "filter" /\ pc' \notin {"killed", "interrupted"})
           => \E i \in 1..Len(videos_to_process') : videos_to_process'[i] = z
        /\ (pc = "comments" /\ videos_to_process[vidx] = z
              /\ pc' \notin {"killed", "interrupted"})
           => ev'.stage = "comments" /\ ev'.arg = z.id ]_vars

\* the second run, after a complete first run, has fetched V2's comments
\* again and found none
C30_Witness ==
  /\ run = 2
  /\ prev.outcome = "complete"
  /\ pc = "merge"
  /\ videos_to_process[vidx].id = "V2"
  /\ ev.stage = "comments" /\ ev.arg = "V2" /\ ~ ev.raised
  /\ new_comments = << >>


(***************************************************************************)
(* The pipeline started on an output directory that is empty, or that an   *)
(* earlier run left when every listed video had a comment (V2's has been   *)
(* deleted since)                                                          *)
(***************************************************************************)
EveryVideoCommented ==
  Batch("V1") \o <<CommentObj(<<"t9", 0>>, "V2")>> \o Batch("V3")

ResumeInit ==
  /\ Fresh
  /\ run = 1
  /\ \/ fs = [p \in Paths |-> Absent]
     \/ fs = [p \in Paths |->
                IF p = "comments" THEN JsonDump(EveryVideoCommented)
                ELSE IF p = "sub_comments"
                     THEN JsonDump(AllReplies("t1", "V1") \o AllReplies("t2", "V1"))
                     ELSE Absent]
  /\ everfail = FALSE
  /\ prev = NoPrev
  /\ hw = NoHw
  /\ gw = NoCall
  /\ db = NoDb

SpecResume == ResumeInit /\ [][Next]_vars

\* C31: a filter that leaves the worklist empty ends the run with status 0
\* at once; at that point the last gateway call of the run is a listing
\* call, no atomic write has been started in the run and no discrepancy has
\* been recorded.
C31_EmptyWorklistNoop ==
  [][ (pc = "filter" /\ pc' \notin {"killed", "interrupted"}
         /\ videos_to_process' = << >>)
        => /\ pc' = "noop"
           /\ exit_status' = 0
           /\ fs' = fs
           /\ ev'.stage = "listing" /\ ~ ev'.raised
           /\ hw' = NoHw /\ aw' = NoWrite
           /\ failed_reply_fetches' = << >>
           /\ UNCHANGED state ]_vars

\* every listed video has a comment on file: nothing to do
C31_Witness ==
  /\ pc = "noop"
  /\ exit_status = 0
  /\ Len(all_videos) = 3
  /\ videos_to_process = << >>
  /\ fs["comments"] = JsonDump(EveryVideoCommented)
  /\ ~ fs["failed_replies"].exists

\* C35: no page of a video's comment fetch, returned or failed, touches the
\* master sequences, the processed set, the files or the discrepancy list;
\* and after a page that failed, whatever page it was, the comments and
\* reply-pointers gathered from the earlier pages are dropped and the loop
\* is at its next video or behind its end, never in the reply loop or the
\* merge of this video.
C35_AllOrNothing ==
  [][ (pc = "comments" /\ pc' \notin {"killed", "interrupted"})
        => /\ UNCHANGED <<fs, state, failed_reply_fetches>>
           /\ CommentFetchFailed
                => /\ pc' \in {"comments", "step9"}
                   /\ vidx' = vidx \/ vidx' = vidx + 1
                   /\ comments_list' = << >> /\ threads_acc' = << >>
                   /\ new_comments' = << >> /\ threads_with_replies' = << >>
                   /\ new_sub_comments' = << >> ]_vars

\* V1's first page was fetched and its second page failed: V2 is up next and
\* nothing of V1 is anywhere
C35_Witness ==
  /\ pc = "comments" /\ vidx = 2 /\ run = 1
  /\ ev.stage = "comments" /\ ev.arg = "V1" /\ ev.page = 2 /\ ev.raised
  /\ comments_list = << >> /\ threads_acc = << >>
  /\ master_comments_list = << >>
  /\ ~ fs["comments"].exists

\* the video links of the comment records a comments file loads as
LinksIn(file) ==
  LET loaded == load_state(file).comments
  IN  {loaded[i].videoLink : i \in 1..Len(loaded)}

\* C36: from the moment Step 9 starts to write the diagnostic file, every
\* record of the text it writes has a video_link that is in the persisted
\* comment sequence, and was not in it when the run started: the video's
\* comments were merged and flushed in this run.
C36_DiscrepanciesOfFlushedVideos ==
  hw.path = "failed_replies" =>
    \A k \in 1..Len(hw.new.items) :
      /\ hw.new.items[k].video_link \in LinksIn(fs["comments"])
      /\ hw.new.items[k].video_link \notin LinksIn(prev.comments)

\* the diagnostic file has been written with two records of V1: the reply
\* fetch of t1 failed and t2 gave fewer replies than it reports
C36_Witness ==
  /\ pc = "step10" /\ hw.path = "failed_replies"
  /\ fs["failed_replies"] = hw.new
  /\ Len(hw.new.items) = 2
  /\ hw.new.items[1].video_id = "V1" /\ hw.new.items[1].error
  /\ hw.new.items[2].video_id = "V1" /\ ~ hw.new.items[2].error
  /\ create_video_link("V1") \in LinksIn(fs["comments"])

\* the steps the process itself takes: everything but the kill and the
\* interrupt, which come from outside
Step ==
  \/ Resolve \/ Load \/ Playlist \/ ListPage \/ Filter
  \/ FetchCommentsPage \/ FetchRepliesPage
  \/ Merge \/ SaveSubComments \/ NextVideo \/ SaveFailed \/ Complete
  \/ AwCreate \/ AwDumpPartial \/ AwDump \/ AwReplace

\* the output directories a run may start on: empty, left by a run that
\* saved V1 only, or left by a run that saved every listed video
StartDirectories ==
  { [p \in Paths |-> Absent],
    [p \in Paths |-> IF p = "comments" THEN JsonDump(Batch("V1"))
                     ELSE IF p = "sub_comments"
                          THEN JsonDump(AllReplies("t1", "V1") \o AllReplies("t2", "V1"))
                          ELSE Absent],
    [p \in Paths |-> IF p = "comments" THEN JsonDump(EveryVideoCommented)
                     ELSE IF p = "sub_comments"
                          THEN JsonDump(AllReplies("t1", "V1") \o AllReplies("t2", "V1"))
                          ELSE Absent] }

RunInit ==
  /\ Fresh
  /\ run = 1
  /\ fs \in StartDirectories
  /\ everfail = FALSE
  /\ prev = NoPrev
  /\ hw = NoHw
  /\ gw = NoCall
  /\ db = NoDb

\* one run, from its start to its end
RunNext ==
  \/ Resolve
  \/ Load
  \/ Playlist
  \/ ListPage
  \/ Filter
  \/ FetchCommentsPage
  \/ FetchRepliesPage
  \/ Merge
  \/ SaveSubComments
  \/ NextVideo
  \/ SaveFailed
  \/ Complete
  \/ AwCreate
  \/ AwDumpPartial
  \/ AwDump
  \/ AwReplace
  \/ Kill
  \/ Interrupt

\* a started process keeps executing: the interpreter runs the script's next
\* statement, and every gateway call returns or raises
SpecTermination == RunInit /\ [][RunNext]_vars /\ WF_vars(Step)

\* C37: every run ends, whatever the gateway does: it completes, or stops
\* at the quota and completes, or leaves by a fatal exit (or is interrupted
\* or killed).
C37_RunTerminates == <>Over

\* a run that met gateway failures, skipped V1 for a failed second page,
\* and still reached its end
C37_Witness ==
  /\ pc = "done" /\ cfail /\ everfail
  /\ fs["comments"] = JsonDump(Batch("V3"))
  /\ processed_videos_set = {}

\* what the two output files hold after a complete run over video V1
CompleteReplies == AllReplies("t1", "V1") \o AllReplies("t2", "V1")

\* the comments file of that run after damage from outside: cut short,
\* emptied, or with a record that has no videoLink
DamagedComments ==
  { JsonPrefix(Batch("V1"), 1), EmptyText,
    JsonDump(Batch("V1") \o <<SubCommentObj("r1", "t1", "V1")>>) }

\* a first run over an output directory whose comments file is damaged and
\* whose sub-comments file is intact
DegradedInit ==
  /\ Fresh
  /\ run = 1
  /\ \E c \in DamagedComments :
       fs = [p \in Paths |->
               IF p = "comments" THEN c
               ELSE IF p = "sub_comments" THEN JsonDump(CompleteReplies)
               ELSE Absent]
  /\ everfail = FALSE
  /\ prev = NoPrev
  /\ hw = NoHw
  /\ gw = NoCall
  /\ db = NoDb

SpecDegraded == DegradedInit /\ [][Next]_vars

\* no record occurs at two positions of seq
NoRepeats(seq) ==
  \A i \in 1..Len(seq), j \in 1..Len(seq) : i # j => seq[i] # seq[j]

\* C34: whatever runs, crashes, restarts and degraded loads came before, the
\* persisted comment sequence holds no comment record twice and the
\* persisted reply sequence holds no reply record twice.
C34_NoDuplication ==
  /\ NoRepeats(load_state(fs["comments"]).comments)
  /\ NoRepeats(load_sub_comments(fs["sub_comments"]).sub_comments)

\* ---------------------------------------------------------------------
\* The uploaders: src/database/upload_to_supabase.py (videos, comments,
\* sub-comments, optional migration) and the older src/upload_to_supabase.py
\* (comments and sub-comments only).
\* ---------------------------------------------------------------------

\* the largest --batch-size drawn
MaxBatchSize == 2

\* the tables upload_channel_data fills, in the order of its steps
Tables_CommentsFirst == <<"comments", "videos", "sub_comments">>

Tables == <<"videos", "comments", "sub_comments">>

\* the same for the older script, which has no videos step
LegacyTables == <<"comments", "sub_comments">>

upload_tables(script) == IF script = "database" THEN Tables ELSE LegacyTables

\* the channels find_channel_files finds in the output directory
ChannelIds == <<"UC1", "UC2", "UC3">>

\* a file holding a JSON array of n items
Array(n) == [kind |-> "array", items |-> [k \in 1..n |-> k]]

\* the files of the output directory: no file of that kind (None), a JSON
\* array, valid JSON that is not an array, or text that is not JSON
ChannelFiles ==
  [c \in Range(ChannelIds) |->
     CASE c = "UC1" -> [videos       |-> Array(2),
                        comments     |-> Array(3),
                        sub_comments |-> Array(1)]
       [] c = "UC2" -> [videos       |-> [kind |-> "none"],
                        comments     |-> [kind |-> "object"],
                        sub_comments |-> Array(2)]
       [] c = "UC3" -> [videos       |-> Array(0),
                        comments     |-> Array(1),
                        sub_comments |-> [kind |-> "invalid"]]]

\* rows the database already holds for a channel
ExistingRows(table_name, channel_id) ==
  IF channel_id = "UC2" /\ table_name = "sub_comments" THEN 1 ELSE 0

\* load_json_file: the array, [] for valid JSON that is not an array, and
\* the decode error re-raised
load_json_file(file) ==
  CASE file.kind = "array"   -> [raised |-> FALSE, data |-> file.items]
    [] file.kind = "object"  -> [raised |-> FALSE, data |-> << >>]
    [] file.kind = "invalid" -> [raised |-> TRUE,  data |-> << >>]

\* prepare_video_record / prepare_comment_record / prepare_sub_comment_record
prepare_record(item, channel_id) == [channel_id |-> channel_id, item |-> item]

\* what one insert(batch).execute() can do
InsertOutcomes == {"data", "no data", "exception"}

\* the frame of batch_insert_records before its first batch
NewCall(records) ==
  [records |-> records, i |-> 0, successful |-> 0, failed |-> 0,
   errors |-> << >>, batches |-> << >>]

NoFrame == NewCall(<< >>)

Min(a, b) == IF a <= b THEN a ELSE b

\* records[i:i + batch_size]
Slice(records, i, batch_size) ==
  SubSeq(records, i + 1, Min(i + batch_size, Len(records)))

\* one pass through the loop body of batch_insert_records
insert_batch_DropFailed(call, batch_size, outcome) ==
  LET batch == Slice(call.records, call.i, batch_size)
  IN  [call EXCEPT
         !.i          = @ + batch_size,
         !.batches    = Append(@, batch),
         !.successful = IF outcome = "data" THEN @ + Len(batch) ELSE @,
         !.failed     = IF outcome = "no data" THEN @ + Len(batch) ELSE @,
         !.errors     = IF outcome = "data" THEN @
                        ELSE Append(@, [batch |-> call.i \div batch_size + 1,
                                        kind  |-> outcome])]

insert_batch(call, batch_size, outcome) ==
  LET batch == Slice(call.records, call.i, batch_size)
  IN  [call EXCEPT
         !.i          = @ + batch_size,
         !.batches    = Append(@, batch),
         !.successful = IF outcome = "data" THEN @ + Len(batch) ELSE @,
         !.failed     = IF outcome = "data" THEN @ ELSE @ + Len(batch),
         !.errors     = IF outcome = "data" THEN @
                        ELSE Append(@, [batch |-> call.i \div batch_size + 1,
                                        kind  |-> outcome])]

\* the statistics upload_channel_data starts from
ZeroStats == [t \in Range(Tables) |-> [uploaded |-> 0, failed |-> 0, existing |-> 0]]

\* the totals main starts from
ZeroTotals == [t \in Range(Tables) |-> [uploaded |-> 0, failed |-> 0]]

\* one operation sent to the database
DbOp(op, table_name, channel_id, n) ==
  [op |-> op, table |-> table_name, channel |-> channel_id, n |-> n]

\* the command lines: script, --dry-run, --run-migration (newer script
\* only), --batch-size, and --all or --channel-id
UploadInputs ==
  { [script |-> s, dry_run |-> d, run_migration |-> m, batch_size |-> b,
     target |-> t, pc |-> "migration", channels |-> << >>, ch |-> 0,
     table |-> 0, call |-> NoFrame, stats |-> ZeroStats,
     total_stats |-> ZeroTotals, ops |-> << >>] :
    s \in {"database", "legacy"}, d \in BOOLEAN, m \in BOOLEAN,
    b \in 1..MaxBatchSize, t \in {"--all", "UC1", "UC3", "UC9"} }

UploadInit ==
  /\ Fresh
  /\ run = 1
  /\ fs = [p \in Paths |-> Absent]
  /\ everfail = FALSE
  /\ prev = NoPrev
  /\ hw = NoHw
  /\ gw = NoCall
  /\ db \in { d \in UploadInputs : d.script = "legacy" => ~ d.run_migration }

\* how run_migration can go: no migration file, the operator declines, the
\* statements are executed, or an rpc raises and the operator is asked
\* whether the migration was run by hand
MigrationOutcomes == {"missing", "declined", "executed", "manual yes", "manual no"}

\* main: the migration, when requested
RunMigration_Ungated ==
  /\ db.pc = "migration"
  /\ IF db.script = "database" /\ db.run_migration
     THEN \E outcome \in MigrationOutcomes :
            db' = [db EXCEPT
                     !.ops = IF outcome \in {"missing", "declined"} THEN @
                             ELSE Append(@, DbOp("migration", "", "", 0)),
                     !.pc  = IF outcome \in {"executed", "manual yes"}
                             THEN "find" ELSE "done"]
     ELSE db' = [db EXCEPT !.pc = "find"]
  /\ UNCHANGED <<pipeline, gw>>

RunMigration ==
  /\ db.pc = "migration"
  /\ IF db.script = "database" /\ db.run_migration /\ ~ db.dry_run
     THEN \E outcome \in MigrationOutcomes :
            db' = [db EXCEPT
                     !.ops = IF outcome \in {"missing", "declined"} THEN @
                             ELSE Append(@, DbOp("migration", "", "", 0)),
                     !.pc  = IF outcome \in {"executed", "manual yes"}
                             THEN "find" ELSE "done"]
     ELSE db' = [db EXCEPT !.pc = "find"]
  /\ UNCHANGED <<pipeline, gw>>

\* main: the channels found and the channels to process
FindChannels ==
  /\ db.pc = "find"
  /\ LET channels_to_process ==
           IF db.target = "--all" THEN ChannelIds
           ELSE IF db.target \in Range(ChannelIds) THEN <<db.target>>
           ELSE << >>
     IN  db' = IF channels_to_process = << >>
               THEN [db EXCEPT !.pc = "done"]
               ELSE [db EXCEPT !.pc = "table", !.channels = channels_to_process,
                               !.ch = 1, !.table = 1, !.stats = ZeroStats]
  /\ UNCHANGED <<pipeline, gw>>

\* the step after a table of a channel: the next table, or the return of
\* upload_channel_data, the totals, and the next channel or the summary
Advance(d) ==
  IF d.table < Len(upload_tables(d.script))
  THEN [d EXCEPT !.pc = "table", !.table = @ + 1, !.call = NoFrame]
  ELSE LET totals == [t \in Range(Tables) |->
                        [uploaded |-> d.total_stats[t].uploaded + d.stats[t].uploaded,
                         failed   |-> d.total_stats[t].failed + d.stats[t].failed]]
       IN  IF d.ch < Len(d.channels)
           THEN [d EXCEPT !.pc = "table", !.table = 1, !.ch = @ + 1,
                          !.call = NoFrame, !.total_stats = totals,
                          !.stats = ZeroStats]
           ELSE [d EXCEPT !.pc = "done", !.call = NoFrame,
                          !.total_stats = totals]

\* upload_channel_data: one of its steps up to the call of
\* batch_insert_records
UploadTable_IgnoreDryRun ==
  /\ db.pc = "table"
  /\ LET channel_id == db.channels[db.ch]
         table_name == upload_tables(db.script)[db.table]
         file       == ChannelFiles[channel_id][table_name]
     IN  IF file.kind = "none"
         THEN db' = Advance(db)
         ELSE LET loaded == load_json_file(file)
              IN  IF loaded.raised
                  THEN db' = [db EXCEPT !.pc = "crashed"]
                  ELSE IF loaded.data = << >>
                  THEN db' = Advance(db)
                  ELSE \E existing_count \in {ExistingRows(table_name, channel_id), 0} :
                         LET counted ==
                               [db EXCEPT
                                  !.ops = Append(@, DbOp("count", table_name, channel_id, 0)),
                                  !.stats[table_name].existing = existing_count]
                         IN  db' = [counted EXCEPT
                                      !.pc = "insert",
                                      !.call = NewCall(
                                        [k \in 1..Len(loaded.data) |->
                                           prepare_record(loaded.data[k], channel_id)])]
  /\ UNCHANGED <<pipeline, gw>>

UploadTable ==
  /\ db.pc = "table"
  /\ LET channel_id == db.channels[db.ch]
         table_name == upload_tables(db.script)[db.table]
         file       == ChannelFiles[channel_id][table_name]
     IN  IF file.kind = "none"
         THEN db' = Advance(db)
         ELSE LET loaded == load_json_file(file)
              IN  IF loaded.raised
                  THEN db' = [db EXCEPT !.pc = "crashed"]
                  ELSE IF loaded.data = << >>
                  THEN db' = Advance(db)
                  ELSE \E existing_count \in {ExistingRows(table_name, channel_id), 0} :
                         LET counted ==
                               [db EXCEPT
                                  !.ops = Append(@, DbOp("count", table_name, channel_id, 0)),
                                  !.stats[table_name].existing = existing_count]
                         IN  IF db.dry_run
                             THEN db' = Advance(counted)
                             ELSE db' = [counted EXCEPT
                                           !.pc = "insert",
                                           !.call = NewCall(
                                             [k \in 1..Len(loaded.data) |->
                                                prepare_record(loaded.data[k], channel_id)])]
  /\ UNCHANGED <<pipeline, gw>>

\* batch_insert_records called by upload_channel_data: one batch, and
\* after the last one the return and the two counters of the table
InsertBatch ==
  /\ db.pc = "insert"
  /\ LET channel_id == db.channels[db.ch]
         table_name == upload_tables(db.script)[db.table]
     IN  \E outcome \in InsertOutcomes :
           LET call == insert_batch(db.call, db.batch_size, outcome)
               sent == [db EXCEPT
                          !.call = call,
                          !.ops  = Append(@, DbOp("insert", table_name, channel_id,
                                                  Len(call.batches[Len(call.batches)])))]
           IN  IF call.i < Len(call.records)
               THEN db' = sent
               ELSE db' = Advance([sent EXCEPT
                                     !.stats[table_name].uploaded = call.successful,
                                     !.stats[table_name].failed   = call.failed])
  /\ UNCHANGED <<pipeline, gw>>

UploadNext ==
  \/ RunMigration
  \/ FindChannels
  \/ UploadTable
  \/ InsertBatch

SpecUpload == UploadInit /\ [][UploadNext]_vars

\* the position of a table in the order the foreign keys ask for
TableRank(table_name) ==
  CASE table_name = "videos" -> 1
    [] table_name = "comments" -> 2
    [] table_name = "sub_comments" -> 3

\* the positions of the log that are inserts for a channel
InsertsOf(channel_id) ==
  { k \in 1..Len(db.ops) :
      db.ops[k].op = "insert" /\ db.ops[k].channel = channel_id }

\* C32: for every channel, every insert batch into videos is issued before
\* any insert batch into comments, and every insert batch into comments
\* before any insert batch into sub_comments.
C32_UploadOrder ==
  \A c \in Range(ChannelIds) :
    \A j \in InsertsOf(c), k \in InsertsOf(c) :
      j < k => TableRank(db.ops[j].table) <= TableRank(db.ops[k].table)

\* channel UC1 uploaded with batches of one: two video batches, three comment
\* batches of which one failed, and one sub-comment batch
C32_Witness ==
  /\ db.script = "database" /\ db.batch_size = 1 /\ db.target = "UC1"
  /\ db.pc = "done"
  /\ Cardinality({k \in InsertsOf("UC1") : db.ops[k].table = "videos"}) = 2
  /\ Cardinality({k \in InsertsOf("UC1") : db.ops[k].table = "comments"}) = 3
  /\ Cardinality({k \in InsertsOf("UC1") : db.ops[k].table = "sub_comments"}) = 1
  /\ db.total_stats["comments"].failed = 1
  /\ db.total_stats["videos"].failed = 1

\* C33: under --dry-run, in either script, the only operations sent to the
\* database are count queries (no insert, no migration), and every uploaded
\* and failed counter, per channel and in total, is 0.
C33_DryRunChangesNothing ==
  db.dry_run =>
    /\ \A k \in 1..Len(db.ops) : db.ops[k].op = "count"
    /\ \A t \in Range(Tables) :
         /\ db.stats[t].uploaded = 0 /\ db.stats[t].failed = 0
         /\ db.total_stats[t].uploaded = 0 /\ db.total_stats[t].failed = 0

\* a dry run with --run-migration over all channels that got as far as the
\* second channel, after the three count queries of the first
C33_Witness ==
  /\ db.dry_run /\ db.run_migration /\ db.script = "database"
  /\ db.target = "--all" /\ db.ch = 2 /\ db.table = 3
  /\ Len(db.ops) >= 3
  /\ \E k \in 1..Len(db.ops) : db.ops[k] = DbOp("count", "videos", "UC1", 0)

\* a dry run of the older script that reached its end
C33_WitnessLegacy ==
  /\ db.dry_run /\ db.script = "legacy" /\ db.target = "UC1" /\ db.pc = "done"
  /\ db.ops = <<DbOp("count", "comments", "UC1", 0),
                DbOp("count", "sub_comments", "UC1", 0)>>


\* ---------------------------------------------------------------------
\* batch_insert_records on its own
\* ---------------------------------------------------------------------

\* the longest record list drawn
MaxRecords == 3

\* the calls: a record list and a positive batch size
BatchInputs ==
  { [call |-> NewCall([k \in 1..n |-> k]), batch_size |-> b,
     outcomes |-> << >>, returned |-> FALSE, result |-> <<0, 0, << >> >>] :
    n \in 0..MaxRecords, b \in 1..MaxBatchSize }

BatchInit ==
  /\ Fresh
  /\ run = 1
  /\ fs = [p \in Paths |-> Absent]
  /\ everfail = FALSE
  /\ prev = NoPrev
  /\ hw = NoHw
  /\ gw = NoCall
  /\ db \in BatchInputs

\* the loop body: one slice of the records is sent and counted
BatchLoop ==
  /\ ~ db.returned
  /\ db.call.i < Len(db.call.records)
  /\ \E outcome \in InsertOutcomes :
       db' = [db EXCEPT !.call = insert_batch(db.call, db.batch_size, outcome),
                        !.outcomes = Append(@, outcome)]
  /\ UNCHANGED <<pipeline, gw>>

\* the end of the range: return successful, failed, errors
BatchReturn ==
  /\ ~ db.returned
  /\ db.call.i >= Len(db.call.records)
  /\ db' = [db EXCEPT !.returned = TRUE,
                      !.result = <<db.call.successful, db.call.failed,
                                   db.call.errors>>]
  /\ UNCHANGED <<pipeline, gw>>

BatchNext ==
  \/ BatchLoop
  \/ BatchReturn

SpecBatch == BatchInit /\ [][BatchNext]_vars

RECURSIVE ConcatAll(_)
\* the concatenation of a sequence of sequences
ConcatAll(seqs) ==
  IF seqs = << >> THEN << >> ELSE Head(seqs) \o ConcatAll(Tail(seqs))

\* C38: the batches sent are non-empty, hold at most batch_size records
\* and, put end to end, are the records from the first one on; when the
\* function returns they cover the whole list, their number is the list's
\* length divided by batch_size rounded up whatever the outcomes of the
\* earlier batches were, and successful + failed is the list's length.
C38_BatchConservation ==
  LET call == db.call
      n    == Len(call.records)
  IN  /\ \A k \in 1..Len(call.batches) :
           /\ Len(call.batches[k]) >= 1
           /\ Len(call.batches[k]) <= db.batch_size
      /\ ConcatAll(call.batches)
           = SubSeq(call.records, 1, Len(ConcatAll(call.batches)))
      /\ call.successful + call.failed = Len(ConcatAll(call.batches))
      /\ db.returned =>
           /\ ConcatAll(call.batches) = call.records
           /\ Len(call.batches) = (n + db.batch_size - 1) \div db.batch_size
           /\ Len(db.outcomes) = Len(call.batches)
           /\ db.result[1] + db.result[2] = n

\* three records in batches of two: the first batch raised, the second,
\* of one record, was still sent and went through
C38_Witness ==
  /\ db.returned
  /\ Len(db.call.records) = 3 /\ db.batch_size = 2
  /\ db.outcomes = <<"exception", "data">>
  /\ db.call.batches = << <<1, 2>>, <<3>> >>
  /\ db.result[1] = 1 /\ db.result[2] = 2


\* ---------------------------------------------------------------------
\* The verification pass: src/scripts/verify_supabase_data.py
\* ---------------------------------------------------------------------

\* the expected row counts main is written with
Expected == [videos |-> 140, comments |-> 1499, sub_comments |-> 1366]

\* the row counts the database may report for a table
ActualCounts(t) == {Expected[t], Expected[t] - 1, 0}

\* how one foreign-key check can end: its sample query returned no row, or
\* the row referred to was found, or it was not
FkResults == {"no sample", "valid", "broken"}

VerifyStart ==
  [pc |-> "row counts", actual |-> [t \in Range(Tables) |-> 0],
   counts_valid |-> FALSE,
   fk |-> [comment_video |-> "unchecked", reply_parent |-> "unchecked",
           reply_video |-> "unchecked"],
   report |-> "", exit_code |-> -1]

VerifyInit ==
  /\ Fresh
  /\ run = 1
  /\ fs = [p \in Paths |-> Absent]
  /\ everfail = FALSE
  /\ prev = NoPrev
  /\ hw = NoHw
  /\ gw = NoCall
  /\ db = VerifyStart

\* main's handler: any exception of a query ends the script with status 1
VerifyError(d) == [d EXCEPT !.pc = "done", !.report = "error", !.exit_code = 1]

\* verify_row_counts: three count queries and the comparison it returns
VerifyRowCounts ==
  /\ db.pc = "row counts"
  /\ \/ \E v \in ActualCounts("videos"), c \in ActualCounts("comments"),
           sc \in ActualCounts("sub_comments") :
          db' = [db EXCEPT
                   !.pc = "foreign keys",
                   !.actual = [videos |-> v, comments |-> c, sub_comments |-> sc],
                   !.counts_valid = /\ v = Expected["videos"]
                                    /\ c = Expected["comments"]
                                    /\ sc = Expected["sub_comments"]]
     \/ db' = VerifyError(db)
  /\ UNCHANGED <<pipeline, gw>>

\* verify_foreign_keys: the three sample checks; what they find is printed
\* and the function returns nothing
VerifyForeignKeys ==
  /\ db.pc = "foreign keys"
  /\ \/ \E cv \in FkResults, rp \in FkResults, rv \in FkResults :
          /\ rp = "no sample" => rv = "no sample"
          /\ db' = [db EXCEPT
                      !.pc = "sample queries",
                      !.fk = [comment_video |-> cv, reply_parent |-> rp,
                              reply_video |-> rv]]
     \/ db' = VerifyError(db)
  /\ UNCHANGED <<pipeline, gw>>

\* verify_sample_queries: reads and prints only
VerifySampleQueries ==
  /\ db.pc = "sample queries"
  /\ \/ db' = [db EXCEPT !.pc = "summary"]
     \/ db' = VerifyError(db)
  /\ UNCHANGED <<pipeline, gw>>

\* main: the final summary
VerifySummary ==
  /\ db.pc = "summary"
  /\ db' = [db EXCEPT !.pc = "done",
                      !.report = IF db.counts_valid THEN "passed" ELSE "failed"]
  /\ UNCHANGED <<pipeline, gw>>

VerifyNext ==
  \/ VerifyRowCounts
  \/ VerifyForeignKeys
  \/ VerifySampleQueries
  \/ VerifySummary

SpecVerify == VerifyInit /\ [][VerifyNext]_vars

\* C39: the pass reports "All verifications passed", with "Foreign key
\* relationships are valid", only when the three row counts equal their
\* expected values and no foreign-key check found a broken reference.
C39_VerificationSound ==
  db.report = "passed" =>
    /\ \A t \in Range(Tables) : db.actual[t] = Expected[t]
    /\ \A check \in DOMAIN db.fk : db.fk[check] # "broken"

\* the part of C39 the code does keep: success is reported only with the
\* three row counts as expected
C39_CountsOnly ==
  db.report = "passed" => \A t \in Range(Tables) : db.actual[t] = Expected[t]


====
